---------------------------- MODULE Spec2Model ----------------------------
(* Disaster-response platform: the expiring key-value cache             *)
(* (server/services/cache.js), the geocoding resolver and the social    *)
(* media feed that sit on it (server/services/geocoding.js), and the    *)
(* socket.io fan-out (server index, routes), the /disasters routes      *)
(* (server/routes/disasters.js), location extraction (GeminiService)    *)
(* and POST /geocode (server/routes/geocoding.js).                       *)
(*                                                                       *)
(* Strings are sequences of one-character strings, so that template     *)
(* literals, join, base64, toLowerCase and includes are computed the    *)
(* way the JavaScript computes them.                                     *)
EXTENDS Integers, Sequences, FiniteSets, TLC

VARIABLES
    now,            \* the wall clock (new Date()), in ticks
    googleApiKey,   \* config.maps.googleApiKey ("" when the variable is not set)
    cache,          \* the cache table: key -> [value, expires_at]
    req,            \* the request slots: the position and locals of each call
    calls,          \* the number of service calls started so far
    lastSet,        \* history: <<service, query>> -> the value last cached, and when,
                    \* and every row written for the query
    sockets,        \* connection -> "new" | "connected" | "disconnected"
    rooms,          \* socket.io adapter: room name -> set of connections
    joined,         \* history: connection -> the join_disaster messages it sent
    inbox,          \* connection -> sequence of the event ids it received
    events,         \* the events published so far, in publish order
    kin,            \* the pair of queries whose keys are being derived
    feed,           \* a tag list and the reports generateMockReports made of it
    disasters,      \* the disasters table: id -> [owner_id, audit_trail]
    http,           \* the requests to the /disasters routes, by position
    route,          \* the requests to POST /geocode, by position
    alerts,         \* a report list and what detectPriorityAlerts made of it
    reportsTable    \* the reports table: the rows inserted, in order

vars == <<now, googleApiKey, cache, req, calls, lastSet,
          sockets, rooms, joined, inbox, events, kin, feed,
          disasters, http, route, alerts, reportsTable>>

cacheVars == <<now, googleApiKey, cache, req, calls, lastSet>>
fanVars   == <<sockets, rooms, joined, inbox, events>>
crudVars  == <<disasters, http>>
notCache  == <<sockets, rooms, joined, inbox, events, kin, feed,
               disasters, http, route, alerts, reportsTable>>
notFan    == <<cacheVars, kin, feed, disasters, http, route, alerts, reportsTable>>

-----------------------------------------------------------------------------
(* Bounds of the model *)

MaxTime == 5
TicksPerHalfHour == 2
NSlots == 2
MaxCalls == 2
MaxEvents == 2
MaxTags == 2

\* A value that may be null is a sequence: <<>> for null, <<v>> for v.
\* The value column of a cache row and what get returns are such values.
Null == <<>>
Some(v) == <<v>>
Val(m) == m[1]

-----------------------------------------------------------------------------
(* Strings *)

Upper == <<"A", "B", "C", "D", "E", "F", "G", "H", "I", "J", "K", "L", "M",
           "N", "O", "P", "Q", "R", "S", "T", "U", "V", "W", "X", "Y", "Z">>
Lower == <<"a", "b", "c", "d", "e", "f", "g", "h", "i", "j", "k", "l", "m",
           "n", "o", "p", "q", "r", "s", "t", "u", "v", "w", "x", "y", "z">>
Digits == <<"0", "1", "2", "3", "4", "5", "6", "7", "8", "9">>

IndexOf(seq, c) == CHOOSE i \in 1..Len(seq) : seq[i] = c
Has(seq, c) == \E i \in 1..Len(seq) : seq[i] = c

\* String.prototype.toLowerCase, on the ASCII range
ToLowerChar(c) == IF Has(Upper, c) THEN Lower[IndexOf(Upper, c)] ELSE c
ToLowerCase(s) == [i \in 1..Len(s) |-> ToLowerChar(s[i])]

\* String.prototype.includes: t occurs in s as a contiguous substring
Includes(s, t) ==
    \E i \in 0..(Len(s) - Len(t)) : SubSeq(s, i + 1, i + Len(t)) = t

\* Array.prototype.join
RECURSIVE Join(_, _)
Join(list, sep) ==
    IF Len(list) = 0 THEN <<>>
    ELSE IF Len(list) = 1 THEN list[1]
    ELSE list[1] \o sep \o Join(Tail(list), sep)

\* Buffer.from(s): the UTF-8 bytes of an ASCII string
CharCode(c) ==
    IF Has(Upper, c) THEN 64 + IndexOf(Upper, c)
    ELSE IF Has(Lower, c) THEN 96 + IndexOf(Lower, c)
    ELSE IF Has(Digits, c) THEN 47 + IndexOf(Digits, c)
    ELSE IF c = "_" THEN 95
    ELSE IF c = " " THEN 32
    ELSE IF c = "," THEN 44
    ELSE IF c = "-" THEN 45
    ELSE 46
BufferFrom(s) == [i \in 1..Len(s) |-> CharCode(s[i])]

\* buf.toString('base64')
B64Alphabet == Upper \o Lower \o Digits \o <<"+", "/">>
B64Group(b) ==
    LET n == Len(b)
        v == b[1] * 65536 + (IF n > 1 THEN b[2] * 256 ELSE 0)
                          + (IF n > 2 THEN b[3] ELSE 0)
        c1 == B64Alphabet[(v \div 262144) + 1]
        c2 == B64Alphabet[((v \div 4096) % 64) + 1]
        c3 == B64Alphabet[((v \div 64) % 64) + 1]
        c4 == B64Alphabet[(v % 64) + 1]
    IN  IF n = 3 THEN <<c1, c2, c3, c4>>
        ELSE IF n = 2 THEN <<c1, c2, c3, "=">>
        ELSE <<c1, c2, "=", "=">>
RECURSIVE ToBase64(_)
ToBase64(b) ==
    IF Len(b) = 0 THEN <<>>
    ELSE IF Len(b) <= 3 THEN B64Group(b)
    ELSE B64Group(SubSeq(b, 1, 3)) \o ToBase64(SubSeq(b, 4, Len(b)))

-----------------------------------------------------------------------------
(* Cache keys and room names *)

GeocodePrefix == <<"g", "e", "o", "c", "o", "d", "e", "_">>
SocialPrefix  == <<"s", "o", "c", "i", "a", "l", "_", "m", "e", "d", "i", "a", "_">>
UpdatesPrefix == <<"o", "f", "f", "i", "c", "i", "a", "l", "_",
                   "u", "p", "d", "a", "t", "e", "s", "_">>
ExtractPrefix == <<"l", "o", "c", "a", "t", "i", "o", "n", "_",
                   "e", "x", "t", "r", "a", "c", "t", "_">>
RoomPrefix    == <<"d", "i", "s", "a", "s", "t", "e", "r", "_">>

\* mutant: the key leaves the location text out
GeocodeKeyNoText(locationName) == GeocodePrefix

\* `geocode_${Buffer.from(locationName).toString('base64')}`
GeocodeKey(locationName) == GeocodePrefix \o ToBase64(BufferFrom(locationName))

\* `location_extract_${Buffer.from(description).toString('base64')}`
ExtractKey(description) == ExtractPrefix \o ToBase64(BufferFrom(description))

\* mutant: the key is built from the first tag alone
SocialKeyFirstTag(disasterId, tags) ==
    SocialPrefix \o disasterId \o <<"_">>
        \o (IF Len(tags) = 0 THEN <<>> ELSE tags[1])

\* `social_media_${disasterId}_${tags.join('_')}`
SocialKey(disasterId, tags) ==
    SocialPrefix \o disasterId \o <<"_">> \o Join(tags, <<"_">>)

\* `official_updates_${disasterId}_${location}`
UpdatesKey(disasterId, location) ==
    UpdatesPrefix \o disasterId \o <<"_">> \o location

\* mutant: every disaster shares one room
RoomNameNoId(disasterId) == RoomPrefix

\* `disaster_${disasterId}`
RoomName(disasterId) == RoomPrefix \o disasterId

-----------------------------------------------------------------------------
(* The cache table and CacheService *)

Hour == 2 * TicksPerHalfHour

\* Date.prototype.setHours(getHours() + ttlHours): the hour argument is
\* converted to an integer (truncated), so a fractional ttl adds only its
\* whole hours. The ttl is given here in half hours (0.5 h = 1, 1 h = 2).
SetHours(t, ttlHalfHours) == t + (ttlHalfHours \div 2) * Hour

DefaultTtl == 2
SocialTtl == 1

HasRow(key) == key \in DOMAIN cache

\* .upsert({ key, value, expires_at })
Upsert(table, key, row) ==
    [k \in (DOMAIN table) \cup {key} |-> IF k = key THEN row ELSE table[k]]

\* mutant: the delete has no .eq('key', key), every row goes
DeleteRowAll(table, key) == [k \in {} |-> table[k]]

\* .delete().eq('key', key)
DeleteRow(table, key) == [k \in (DOMAIN table) \ {key} |-> table[k]]

\* new Date() > new Date(data.expires_at)
Expired(t, row) == t > row.expires_at

\* if (cached): null is the only falsy value a service reads back
Truthy(v) == v # Null

Slots == 1..NSlots

IdleReq ==
    [pc |-> "idle", kind |-> "none", arg |-> <<>>, key |-> <<>>,
     data |-> Null, cached |-> Null, result |-> Null, expiresAt |-> 0,
     setAt |-> 0, google |-> Null, nominatim |-> Null, hf |-> Null,
     generated |-> FALSE, wrote |-> FALSE,
     \* history, for stating the properties:
     seen |-> "",       \* what the select and the expiry test of get found
     got |-> "",        \* how get came back: "null", "value" or "raised"
     delFault |-> FALSE, \* the delete of the expired row failed
     setFault |-> FALSE, \* the upsert of set failed
     fresh |-> FALSE,   \* at the expiry test a row was there, now < expires_at
     prev |-> Null,     \* the value last cached for the query before this call
     prevAt |-> 0,      \* ... and when its set was called
     within |-> FALSE,  \* the expiry test came less than the ttl after prev
     alone |-> TRUE]    \* no other call of the same query overlapped this one

-----------------------------------------------------------------------------
(* Geocoding providers *)

\* process.env.GOOGLE_MAPS_API_KEY: not set, left at the placeholder of the
\* example configuration, or a key
Placeholder == "your-google-maps-api-key"
GoogleApiKeys == {"", Placeholder, "AIzaSy"}

\* mutant: the placeholder is taken for a key
GoogleConfiguredAnyKey == googleApiKey # ""

\* geocodeWithGoogle goes on to the HTTP call: the negation of
\* `!config.maps.googleApiKey || config.maps.googleApiKey ===
\* 'your-google-maps-api-key'`
GoogleConfigured == googleApiKey # "" /\ googleApiKey # Placeholder

LocationNames == { <<"N", "Y", "C">>, <<"L", "A">> }

G1 == [lat |-> 40, lng |-> -74]
G2 == [lat |-> 34, lng |-> -118]
N1 == [lat |-> <<"4", "1">>, lon |-> <<"-", "7", "5">>]
N2 == [lat |-> <<"3", "5">>, lon |-> <<"-", "1", "1", "9">>]

\* what the HTTP call can come back with: a failure, or a result list
GoogleResponses ==
    {[ok |-> FALSE, results |-> <<>>]}
    \cup {[ok |-> TRUE, results |-> r] : r \in {<<>>, <<G1, G2>>}}
NominatimResponses ==
    {[ok |-> FALSE, data |-> <<>>]}
    \cup {[ok |-> TRUE, data |-> r] : r \in {<<>>, <<N1, N2>>}}

RECURSIVE DigitsValue(_)
DigitsValue(s) ==
    IF Len(s) = 0 THEN 0
    ELSE 10 * DigitsValue(SubSeq(s, 1, Len(s) - 1))
         + (IndexOf(Digits, s[Len(s)]) - 1)

\* parseFloat, on the signed decimal integers the provider sends
ParseFloat(s) ==
    IF s[1] = "-" THEN 0 - DigitsValue(Tail(s)) ELSE DigitsValue(s)

\* mutant: the last candidate is taken instead of the first
GoogleResultLast(resp) ==
    IF ~resp.ok THEN Null
    ELSE IF Len(resp.results) > 0
         THEN Some([lat |-> resp.results[Len(resp.results)].lat,
                    lng |-> resp.results[Len(resp.results)].lng])
         ELSE Null

\* geocodeWithGoogle, from the response on
GoogleResult(resp) ==
    IF ~resp.ok THEN Null
    ELSE IF Len(resp.results) > 0
         THEN Some([lat |-> resp.results[1].lat, lng |-> resp.results[1].lng])
         ELSE Null

\* geocodeWithNominatim, from the response on
NominatimResult(resp) ==
    IF ~resp.ok THEN Null
    ELSE IF Len(resp.data) > 0
         THEN Some([lat |-> ParseFloat(resp.data[1].lat),
                    lng |-> ParseFloat(resp.data[1].lon)])
         ELSE Null

-----------------------------------------------------------------------------
(* The social media feed *)

\* mockData of generateMockReports: tweet_1 .. tweet_4 and their keywords
MockData == <<
    [id |-> 1, keywords |-> << <<"f", "o", "o", "d">>,
                               <<"s", "h", "e", "l", "t", "e", "r">>,
                               <<"n", "e", "e", "d">> >>],
    [id |-> 2, keywords |-> << <<"t", "r", "a", "n", "s", "p", "o", "r", "t",
                                 "a", "t", "i", "o", "n">>,
                               <<"e", "v", "a", "c", "u", "a", "t", "i", "o", "n">>,
                               <<"h", "e", "l", "p">> >>],
    [id |-> 3, keywords |-> << <<"u", "r", "g", "e", "n", "t">>,
                               <<"e", "v", "a", "c", "u", "a", "t", "i", "o", "n">>,
                               <<"e", "m", "e", "r", "g", "e", "n", "c", "y">> >>],
    [id |-> 4, keywords |-> << <<"m", "e", "d", "i", "c", "a", "l">>,
                               <<"f", "i", "r", "s", "t", " ", "a", "i", "d">>,
                               <<"s", "u", "p", "p", "l", "i", "e", "s">> >>] >>

\* mutant: the comparison is case-sensitive
MatchesTagsCaseSensitive(report, tags) ==
    \E i \in 1..Len(tags) : \E k \in 1..Len(report.keywords) :
        Includes(report.keywords[k], tags[i])

\* tags.some(tag => report.keywords.some(keyword =>
\*     keyword.toLowerCase().includes(tag.toLowerCase())))
MatchesTags(report, tags) ==
    \E i \in 1..Len(tags) : \E k \in 1..Len(report.keywords) :
        Includes(ToLowerCase(report.keywords[k]), ToLowerCase(tags[i]))

FilterReports(tags) ==
    IF Len(tags) > 0
    THEN SelectSeq(MockData, LAMBDA report : MatchesTags(report, tags))
    ELSE MockData

\* generateMockReports(tags) run at time t: the reports kept, each stamped
\* from the Date.now() of the run
GenerateMockReports(tags, t) ==
    LET kept == FilterReports(tags)
    IN  [i \in 1..Len(kept) |-> [id |-> kept[i].id, now |-> t]]

\* String.prototype.split(',')
RECURSIVE SplitComma(_)
SplitComma(q) ==
    IF \E i \in 1..Len(q) : q[i] = ","
    THEN LET i == CHOOSE j \in 1..Len(q) :
                      q[j] = "," /\ \A h \in 1..(j - 1) : q[h] # ","
         IN  <<SubSeq(q, 1, i - 1)>> \o SplitComma(SubSeq(q, i + 1, Len(q)))
    ELSE <<q>>

\* the ?tags= query strings of GET /disasters/:id/social-media
TagQueries == { <<"d", ",", "x">>, <<"d", "_", "x">>, <<"F", "o", "o">>,
                <<"m", "e", "d", "i", "c", "a", "l">> }

\* const searchTags = tags ? tags.split(',') : disaster.tags || []
SearchTags == {SplitComma(q) : q \in TagQueries} \cup {<<>>}

DisasterIds == { <<"d", "1">>, <<"d", "2">> }

-----------------------------------------------------------------------------
(* Official updates *)

\* generateMockOfficialUpdates(location) run at time t: fema_1, redcross_1
\* and nyc_emergency_1, each stamped from the Date.now() of the run
GenerateMockOfficialUpdates(t) ==
    << [id |-> "fema_1", now |-> t], [id |-> "redcross_1", now |-> t],
       [id |-> "nyc_emergency_1", now |-> t] >>

-----------------------------------------------------------------------------
(* Location extraction *)

\* 'Location extraction failed'
ExtractionFailed ==
    <<"L", "o", "c", "a", "t", "i", "o", "n", " ",
      "e", "x", "t", "r", "a", "c", "t", "i", "o", "n", " ",
      "f", "a", "i", "l", "e", "d">>

Unknown == <<"U", "n", "k", "n", "o", "w", "n">>

\* what the NER model can come back with: a failure (the HTTP call throws),
\* or entities (entity_group, word)
HfResponses ==
    {[ok |-> FALSE, data |-> <<>>]}
    \cup {[ok |-> TRUE, data |-> e] :
            e \in { <<>>,
                    << [entity_group |-> "LOC", word |-> <<"L", "A">>] >>,
                    << [entity_group |-> "MISC",
                        word |-> <<"[", "C", "L", "S", "]">>],
                       [entity_group |-> "LOC", word |-> <<"N", "Y">>],
                       [entity_group |-> "LOC", word |-> <<"#", "#", "C">>] >> }}

\* String.prototype.replace(/##/g, '')
RECURSIVE RemoveHashes(_)
RemoveHashes(str) ==
    IF Len(str) < 2 THEN str
    ELSE IF str[1] = "#" /\ str[2] = "#"
         THEN RemoveHashes(SubSeq(str, 3, Len(str)))
         ELSE <<str[1]>> \o RemoveHashes(Tail(str))

\* entities.filter(...).map(ent => ent.word).filter(...).join(' ')
\*     .replace(/##/g, '')
Locations(entities) ==
    LET kept == SelectSeq(entities, LAMBDA ent :
                    ent.entity_group \in {"LOC", "ORG", "PER", "MISC"})
        words == [i \in 1..Len(kept) |-> kept[i].word]
        named == SelectSeq(words, LAMBDA word :
                    word # <<"[", "C", "L", "S", "]">>
                    /\ word # <<"[", "S", "E", "P", "]">>)
    IN  RemoveHashes(Join(named, <<" ">>))

\* const result_data = { location: locations || 'Unknown' }
ResultData(entities) ==
    [location |-> IF Locations(entities) # <<>> THEN Locations(entities)
                  ELSE Unknown]

-----------------------------------------------------------------------------
(* Service calls. Every await is a step boundary: the select, the delete *)
(* and the upsert of CacheService and the HTTP calls of the providers.   *)

InFlight(r) == r.pc \notin {"idle", "done"}

\* a call starts in slot s, the first slot with no call in flight:
\* cache.get(cacheKey) sends its select
Invoke(s, kind, arg, key) ==
    /\ ~InFlight(req[s])
    /\ \A u \in Slots : u < s => InFlight(req[u])
    /\ req' = [o \in Slots |->
                 IF o = s
                 THEN [IdleReq EXCEPT !.pc = "select", !.kind = kind,
                          !.arg = arg, !.key = key,
                          !.prev = IF <<kind, arg>> \in DOMAIN lastSet
                                   THEN Some(lastSet[<<kind, arg>>].value)
                                   ELSE Null,
                          !.prevAt = IF <<kind, arg>> \in DOMAIN lastSet
                                     THEN lastSet[<<kind, arg>>].at ELSE 0,
                          !.alone = \A u \in Slots \ {s} :
                                       ~(InFlight(req[u]) /\ req[u].kind = kind
                                         /\ req[u].arg = arg)]
                 ELSE IF InFlight(req[o]) /\ req[o].kind = kind
                         /\ req[o].arg = arg
                      THEN [req[o] EXCEPT !.alone = FALSE]
                      ELSE req[o]]
    /\ UNCHANGED <<now, googleApiKey, cache, lastSet>>

\* a service is called from outside, at most MaxCalls times
Begin(s, kind, arg, key) ==
    /\ calls < MaxCalls
    /\ calls' = calls + 1
    /\ Invoke(s, kind, arg, key)
    /\ UNCHANGED notCache

\* GeocodingService.geocodeLocation(locationName)
GeocodeLocation(s) ==
    \E locationName \in LocationNames :
        Begin(s, "geocode", locationName, GeocodeKey(locationName))

\* SocialMediaService.fetchSocialMediaReports(disasterId, tags)
FetchSocialMediaReports(s) ==
    \E disasterId \in DisasterIds, tags \in SearchTags :
        Begin(s, "social", <<disasterId, tags>>, SocialKey(disasterId, tags))

\* the service method returns: its locals are gone, its result is kept
Return(r, result) ==
    [r EXCEPT !.pc = "done", !.result = result,
              !.data = Null, !.expiresAt = 0, !.setAt = 0]

\* cache.set(key, value, ttl) up to its await: expiresAt is computed now
CallSet(r, value, ttlHalfHours, t) ==
    [r EXCEPT !.pc = "upsert", !.result = value,
              !.setAt = t, !.expiresAt = SetHours(t, ttlHalfHours)]

\* mutant: the result is cached without the `if (result)` guard
CacheResultUnguarded(r, result, t) == CallSet(r, result, DefaultTtl, t)

\* geocodeLocation: `if (result) { await this.cache.set(cacheKey, result) }
\* return result`
CacheResult(r, result, t) ==
    IF Truthy(result)
    THEN CallSet(r, result, DefaultTtl, t)
    ELSE Return(r, Null)

\* the service after `const cached = await this.cache.get(cacheKey)`
AfterGet(r, cached, t) ==
    IF Truthy(cached)
    THEN Return([r EXCEPT !.cached = cached], cached)
    ELSE IF r.kind = "geocode"
         THEN \* geocodeWithGoogle returns null at once when no key is set
              [r EXCEPT !.pc = IF GoogleConfigured THEN "google" ELSE "nominatim"]
         ELSE IF r.kind = "extract"
         THEN [r EXCEPT !.pc = "hf"]
         ELSE IF r.kind = "verify"
         THEN [r EXCEPT !.pc = "image"]
         ELSE IF r.kind = "updates"
         THEN CallSet([r EXCEPT !.generated = TRUE],
                      Some(GenerateMockOfficialUpdates(t)), DefaultTtl, t)
         ELSE CallSet([r EXCEPT !.generated = TRUE],
                      Some(GenerateMockReports(r.arg[2], t)), SocialTtl, t)

\* cache.get returns value (null or the stored value) to the service
GetReturns(r, value, t) ==
    AfterGet([r EXCEPT !.got = IF value = Null THEN "null" ELSE "value"],
             value, t)

\* mutant: the catch block of extractLocation caches what it returns
ServiceCatchCaching(r) ==
    IF r.kind = "extract"
    THEN CallSet(r, Some([location |-> ExtractionFailed]), DefaultTtl, now)
    ELSE Return(r, IF r.kind = "geocode" THEN Null ELSE Some(<<>>))

\* the catch block of the service: the value that stands for failure
ServiceCatch(r) ==
    Return(r, IF r.kind = "geocode" THEN Null
              ELSE IF r.kind = "extract"
                   THEN Some([location |-> ExtractionFailed])
                   ELSE IF r.kind = "verify"
                        THEN Some([status |-> "error"])
                        ELSE Some(<<>>))

\* the ttl of the calls of a kind, in ticks
TtlOf(kind) == IF kind = "social" THEN TicksPerHalfHour ELSE Hour

\* history only: what held at the expiry test of call r, made at time t
Observe(r, t) ==
    LET inWindow == r.prev # Null /\ t < r.prevAt + TtlOf(r.kind)
    IN  [r EXCEPT !.seen = IF r.data = Null THEN "none"
                           ELSE IF Expired(t, Val(r.data)) THEN "expired"
                           ELSE "live",
                  !.fresh = r.data # Null /\ t < Val(r.data).expires_at,
                  !.within = inWindow,
                  !.prev = IF inWindow THEN r.prev ELSE Null,
                  !.prevAt = 0]

\* CacheService.get: the select comes back with the row, or with none
CacheSelect(s) ==
    /\ req[s].pc = "select"
    /\ req' = [req EXCEPT ![s].pc = "check",
                          ![s].data = IF HasRow(req[s].key)
                                      THEN Some(cache[req[s].key]) ELSE Null]
    /\ UNCHANGED <<now, googleApiKey, cache, calls, lastSet>>
    /\ UNCHANGED notCache

\* CacheService.get: `if (error || !data) return null`, the expiry test
CacheCheck(s) ==
    /\ req[s].pc = "check"
    /\ LET r == Observe(req[s], now)
       IN  req' = [req EXCEPT ![s] =
                IF r.data = Null THEN GetReturns(r, Null, now)
                ELSE IF Expired(now, Val(r.data))
                     THEN [r EXCEPT !.pc = "delete"]
                     ELSE GetReturns(r, Val(r.data).value, now)]
    /\ UNCHANGED <<now, googleApiKey, cache, calls, lastSet>>
    /\ UNCHANGED notCache

\* CacheService.get: `await this.delete(key); return null`
CacheDelete(s) ==
    /\ req[s].pc = "delete"
    /\ cache' = DeleteRow(cache, req[s].key)
    /\ req' = [req EXCEPT ![s] = GetReturns(req[s], Null, now)]
    /\ UNCHANGED <<now, googleApiKey, calls, lastSet>>
    /\ UNCHANGED notCache

\* geocodeWithGoogle: the HTTP call returns
GoogleResponse(s) ==
    /\ req[s].pc = "google"
    /\ \E resp \in GoogleResponses :
         LET r == [req[s] EXCEPT !.google = Some(resp)]
             result == GoogleResult(resp)
         IN  req' = [req EXCEPT ![s] =
                  IF Truthy(result)
                  THEN CacheResult(r, result, now)
                  ELSE [r EXCEPT !.pc = "nominatim"]]
    /\ UNCHANGED <<now, googleApiKey, cache, calls, lastSet>>
    /\ UNCHANGED notCache

\* geocodeWithNominatim: the HTTP call returns
NominatimResponse(s) ==
    /\ req[s].pc = "nominatim"
    /\ \E resp \in NominatimResponses :
         LET r == [req[s] EXCEPT !.nominatim = Some(resp)]
             result == NominatimResult(resp)
         IN  req' = [req EXCEPT ![s] = CacheResult(r, result, now)]
    /\ UNCHANGED <<now, googleApiKey, cache, calls, lastSet>>
    /\ UNCHANGED notCache

\* mutant: on a conflict the upsert replaces the value only, the row
\* keeps the expires_at it had
RowKeepsExpiry(r) ==
    [value |-> r.result,
     expires_at |-> IF HasRow(r.key) THEN cache[r.key].expires_at
                    ELSE r.expiresAt]

\* the row of .upsert({ key, value, expires_at: expiresAt.toISOString() })
Row(r) == [value |-> r.result, expires_at |-> r.expiresAt]

\* history: the rows the set calls of query q have written so far
Written(q) == IF q \in DOMAIN lastSet THEN lastSet[q].all ELSE {}

\* CacheService.set: the upsert reaches the table, one statement on the
\* row of the primary key; the service returns
CacheUpsert(s) ==
    /\ req[s].pc = "upsert"
    /\ LET row == Row(req[s])
           q == <<req[s].kind, req[s].arg>>
       IN  /\ cache' = Upsert(cache, req[s].key, row)
           /\ lastSet' = Upsert(lastSet, q,
                                [value |-> req[s].result, at |-> req[s].setAt,
                                 all |-> Written(q) \cup
                                     {[value |-> req[s].result,
                                       expires_at |-> req[s].expiresAt]}])
    /\ req' = [req EXCEPT ![s] = Return([req[s] EXCEPT !.wrote = TRUE],
                                         req[s].result)]
    /\ UNCHANGED <<now, googleApiKey, calls>>
    /\ UNCHANGED notCache

\* time passes
Tick ==
    /\ now < MaxTime
    /\ now' = now + 1
    /\ UNCHANGED <<googleApiKey, cache, req, calls, lastSet>>
    /\ UNCHANGED notCache

-----------------------------------------------------------------------------
(* Specifications *)

NoRows == [k \in {} |-> Null]

Init ==
    /\ now = 0
    /\ googleApiKey \in GoogleApiKeys
    /\ cache = NoRows
    /\ req = [s \in Slots |-> IdleReq]
    /\ calls = 0
    /\ lastSet = NoRows
    /\ sockets = <<>>
    /\ rooms = <<>>
    /\ joined = <<>>
    /\ inbox = <<>>
    /\ events = <<>>
    /\ kin = <<>>
    /\ feed = <<>>
    /\ disasters = <<>>
    /\ http = <<>>
    /\ route = <<>>
    /\ alerts = <<>>
    /\ reportsTable = <<>>

CacheStep(s) ==
    \/ CacheSelect(s)
    \/ CacheCheck(s)
    \/ CacheDelete(s)
    \/ CacheUpsert(s)

\* the geocoding resolver over the cache
NextGeo ==
    \/ \E s \in Slots : GeocodeLocation(s)
    \/ \E s \in Slots : CacheStep(s)
    \/ \E s \in Slots : GoogleResponse(s)
    \/ \E s \in Slots : NominatimResponse(s)
    \/ Tick

SpecGeo == Init /\ [][NextGeo]_vars

\* the social media feed over the cache
NextSocial ==
    \/ \E s \in Slots : FetchSocialMediaReports(s)
    \/ \E s \in Slots : CacheStep(s)
    \/ Tick

SpecSocial == Init /\ [][NextSocial]_vars

-----------------------------------------------------------------------------
(* The fan-out: socket.io rooms, join_disaster and the scoped emit *)

Conns == {"c1", "c2", "c3"}

Members(room) == IF room \in DOMAIN rooms THEN rooms[room] ELSE {}

\* history of an open connection: how many join_disaster messages the
\* server has handled for each disaster (0, 1, or 2 for two and more), and
\* the disaster of the last one. The client sends join_disaster from
\* selectDisaster, for the disaster the user has just selected.
NotJoined == [times |-> [d \in DisasterIds |-> 0], selected |-> Null]

HasJoined(c, disasterId) == joined[c].times[disasterId] > 0

Joining(j, disasterId) ==
    [times |-> [j.times EXCEPT ![disasterId] = IF @ < 2 THEN @ + 1 ELSE @],
     selected |-> Some(disasterId)]

\* io.on('connection', socket => ...)
Connect(c) ==
    /\ sockets[c] = "new"
    /\ sockets' = [sockets EXCEPT ![c] = "connected"]
    /\ UNCHANGED <<rooms, joined, inbox, events>>
    /\ UNCHANGED notFan

\* mutant: a socket that joins a room is sent the events published to the
\* room before
JoinDisasterReplay(c) ==
    /\ sockets[c] = "connected"
    /\ \E disasterId \in DisasterIds :
         LET missed == {e \in 1..Len(events) :
                           /\ events[e].disaster_id = disasterId
                           /\ \A i \in 1..Len(inbox[c]) : inbox[c][i] # e}
         IN  /\ rooms' = Upsert(rooms, RoomName(disasterId),
                                Members(RoomName(disasterId)) \cup {c})
             /\ joined' = [joined EXCEPT ![c] = Joining(@, disasterId)]
             /\ inbox' = [inbox EXCEPT ![c] =
                    IF missed = {} THEN @
                    ELSE Append(@, CHOOSE e \in missed : TRUE)]
    /\ UNCHANGED <<sockets, events>>
    /\ UNCHANGED notFan

\* mutant: join_disaster toggles the membership, a second one for the same
\* disaster takes the socket out of the room
JoinDisasterToggle(c) ==
    /\ sockets[c] = "connected"
    /\ \E disasterId \in DisasterIds :
         /\ rooms' = Upsert(rooms, RoomName(disasterId),
                            IF c \in Members(RoomName(disasterId))
                            THEN Members(RoomName(disasterId)) \ {c}
                            ELSE Members(RoomName(disasterId)) \cup {c})
         /\ joined' = [joined EXCEPT ![c] = Joining(@, disasterId)]
    /\ UNCHANGED <<sockets, inbox, events>>
    /\ UNCHANGED notFan

\* socket.on('join_disaster', disasterId => socket.join(`disaster_${disasterId}`))
JoinDisaster(c) ==
    /\ sockets[c] = "connected"
    /\ \E disasterId \in DisasterIds :
         /\ rooms' = Upsert(rooms, RoomName(disasterId),
                            Members(RoomName(disasterId)) \cup {c})
         /\ joined' = [joined EXCEPT ![c] = Joining(@, disasterId)]
    /\ UNCHANGED <<sockets, inbox, events>>
    /\ UNCHANGED notFan

\* socket.on('disconnect'): the handler logs; socket.io has taken the
\* socket out of every room
Disconnect(c) ==
    /\ sockets[c] = "connected"
    /\ sockets' = [sockets EXCEPT ![c] = "disconnected"]
    /\ rooms' = [room \in DOMAIN rooms |-> rooms[room] \ {c}]
    /\ joined' = [joined EXCEPT ![c] = NotJoined]
    /\ UNCHANGED <<inbox, events>>
    /\ UNCHANGED notFan

\* mutant: a socket is handed the newest event first
EmitToNewestFirst(room, name, disasterId) ==
    /\ Len(events) < MaxEvents
    /\ events' = Append(events,
            [name |-> name, disaster_id |-> disasterId,
             subscribers |-> {c \in Conns : sockets[c] = "connected"
                                            /\ HasJoined(c, disasterId)}])
    /\ inbox' = [c \in Conns |->
                    IF c \in Members(room)
                    THEN <<Len(events) + 1>> \o inbox[c] ELSE inbox[c]]

\* req.io.to(room).emit(name, payload): the event goes to the sockets that
\* are in the room now. `subscribers` is history: the connections that are
\* connected and have sent join_disaster for the disaster.
EmitTo(room, name, disasterId) ==
    /\ Len(events) < MaxEvents
    /\ events' = Append(events,
            [name |-> name, disaster_id |-> disasterId,
             subscribers |-> {c \in Conns : sockets[c] = "connected"
                                            /\ HasJoined(c, disasterId)}])
    /\ inbox' = [c \in Conns |->
                    IF c \in Members(room)
                    THEN Append(inbox[c], Len(events) + 1) ELSE inbox[c]]

\* POST /disasters/:id/resources, the request that stores the resource:
\* io.to(`disaster_${disasterId}`).emit('resources_updated', ...)
CreateResource ==
    /\ \E disasterId \in DisasterIds :
         EmitTo(RoomName(disasterId), "resources_updated", disasterId)
    /\ UNCHANGED <<sockets, rooms, joined>>
    /\ UNCHANGED notFan

InitFan ==
    /\ now = 0
    /\ googleApiKey = ""
    /\ cache = NoRows
    /\ req = [s \in Slots |-> IdleReq]
    /\ calls = 0
    /\ lastSet = NoRows
    /\ sockets = [c \in Conns |-> "new"]
    /\ rooms = NoRows
    /\ joined = [c \in Conns |-> NotJoined]
    /\ inbox = [c \in Conns |-> <<>>]
    /\ events = <<>>
    /\ kin = <<>>
    /\ feed = <<>>
    /\ disasters = <<>>
    /\ http = <<>>
    /\ route = <<>>
    /\ alerts = <<>>
    /\ reportsTable = <<>>

NextFan ==
    \/ \E c \in Conns : Connect(c)
    \/ \E c \in Conns : JoinDisaster(c)
    \/ \E c \in Conns : Disconnect(c)
    \/ CreateResource

SpecFan == InitFan /\ [][NextFan]_vars

-----------------------------------------------------------------------------
(* Cache keys as functions of the query *)

KeyWords == { <<"a">>, <<"b">>, <<"a", "_", "b">>, <<>> }
KeyTagLists == UNION {[1..n -> KeyWords] : n \in 0..MaxTags}

\* the queries of the four services that build cache keys
Queries ==
    {[family |-> "social", id |-> d, tags |-> t, text |-> <<>>] :
        d \in DisasterIds, t \in KeyTagLists}
    \cup {[family |-> "updates", id |-> d, tags |-> <<>>, text |-> l] :
        d \in DisasterIds, l \in KeyWords}
    \cup {[family |-> f, id |-> <<>>, tags |-> <<>>, text |-> l] :
        f \in {"geocode", "extract"}, l \in KeyWords}

\* the cacheKey the service builds for the query
KeyOf(q) ==
    IF q.family = "social" THEN SocialKey(q.id, q.tags)
    ELSE IF q.family = "updates" THEN UpdatesKey(q.id, q.text)
    ELSE IF q.family = "geocode" THEN GeocodeKey(q.text)
    ELSE ExtractKey(q.text)

InitKeys ==
    /\ now = 0
    /\ googleApiKey = ""
    /\ cache = NoRows
    /\ req = [s \in Slots |-> IdleReq]
    /\ calls = 0
    /\ lastSet = NoRows
    /\ sockets = <<>>
    /\ rooms = <<>>
    /\ joined = <<>>
    /\ inbox = <<>>
    /\ events = <<>>
    /\ kin \in {[a |-> qa, b |-> qb, keyA |-> Null, keyB |-> Null] :
                   qa \in Queries, qb \in Queries}
    /\ feed = <<>>
    /\ disasters = <<>>
    /\ http = <<>>
    /\ route = <<>>
    /\ alerts = <<>>
    /\ reportsTable = <<>>

\* the two services build their keys
DeriveKeys ==
    /\ kin.keyA = Null
    /\ kin' = [kin EXCEPT !.keyA = Some(KeyOf(kin.a)),
                          !.keyB = Some(KeyOf(kin.b))]
    /\ UNCHANGED <<cacheVars, fanVars, feed, crudVars, route, alerts, reportsTable>>

SpecKeys == InitKeys /\ [][DeriveKeys]_vars

\* the tags a caller may ask for, the empty string among them
TagWords == { <<"f", "o", "o">>, <<"F", "O", "O">>, <<"x">>, <<>>,
              <<"m", "e", "d", "i", "c", "a", "l">>,
              <<"e", "v", "a", "c">>, <<"H", "e", "l", "p">> }

TagLists ==
    UNION {[1..n -> TagWords] : n \in 0..MaxTags}

InitFilter ==
    /\ now = 0
    /\ googleApiKey = ""
    /\ cache = NoRows
    /\ req = [s \in Slots |-> IdleReq]
    /\ calls = 0
    /\ lastSet = NoRows
    /\ sockets = <<>>
    /\ rooms = <<>>
    /\ joined = <<>>
    /\ inbox = <<>>
    /\ events = <<>>
    /\ kin = <<>>
    /\ feed \in {[tags |-> t, reports |-> Null] : t \in TagLists}
    /\ disasters = <<>>
    /\ http = <<>>
    /\ route = <<>>
    /\ alerts = <<>>
    /\ reportsTable = <<>>

\* generateMockReports(tags) is run on the tag list
RunGenerateMockReports ==
    /\ feed.reports = Null
    /\ feed' = [feed EXCEPT !.reports = Some(GenerateMockReports(feed.tags, now))]
    /\ UNCHANGED <<cacheVars, fanVars, kin, crudVars, route, alerts, reportsTable>>

\* generateMockReports as a function of its tag list
SpecFilter == InitFilter /\ [][RunGenerateMockReports]_vars

-----------------------------------------------------------------------------
(* Priority alerts *)

MaxReports == 2

\* urgentKeywords of detectPriorityAlerts
UrgentKeywords == << <<"u", "r", "g", "e", "n", "t">>, <<"s", "o", "s">>,
                     <<"e", "m", "e", "r", "g", "e", "n", "c", "y">>,
                     <<"h", "e", "l", "p">>,
                     <<"t", "r", "a", "p", "p", "e", "d">>,
                     <<"c", "r", "i", "t", "i", "c", "a", "l">> >>

\* mutant: the content is not lower-cased before the search
IsUrgentCaseSensitive(report) ==
    \E k \in 1..Len(UrgentKeywords) : Includes(report.content, UrgentKeywords[k])

\* report => urgentKeywords.some(keyword =>
\*     report.content.toLowerCase().includes(keyword))
IsUrgent(report) ==
    \E k \in 1..Len(UrgentKeywords) :
        Includes(ToLowerCase(report.content), UrgentKeywords[k])

\* SocialMediaService.detectPriorityAlerts(reports)
DetectPriorityAlerts(reports) ==
    SelectSeq(reports, LAMBDA report : IsUrgent(report))

\* the contents a report may carry
Contents == { <<"U", "R", "G", "E", "N", "T">>,
              <<"U", "r", "g", "e", "n", "t", "!">>,
              <<"S", "O", "S", " ", "n", "o", "w">>,
              <<"n", "e", "e", "d", " ", "H", "e", "l", "p">>,
              <<"T", "r", "a", "p", "p", "e", "d">>,
              <<"c", "r", "i", "t", "i", "c", "a", "l">>,
              <<"a", "l", "l", " ", "c", "a", "l", "m">>,
              <<>> }

ReportLists ==
    UNION {[1..n -> {[content |-> c] : c \in Contents}] : n \in 0..MaxReports}

InitAlerts ==
    /\ now = 0
    /\ googleApiKey = ""
    /\ cache = NoRows
    /\ req = [s \in Slots |-> IdleReq]
    /\ calls = 0
    /\ lastSet = NoRows
    /\ sockets = <<>>
    /\ rooms = <<>>
    /\ joined = <<>>
    /\ inbox = <<>>
    /\ events = <<>>
    /\ kin = <<>>
    /\ feed = <<>>
    /\ disasters = <<>>
    /\ http = <<>>
    /\ route = <<>>
    /\ alerts \in {[reports |-> l, result |-> Null] : l \in ReportLists}
    /\ reportsTable = <<>>

\* detectPriorityAlerts(reports) is run on the report list
RunDetectPriorityAlerts ==
    /\ alerts.result = Null
    /\ alerts' = [alerts EXCEPT !.result = Some(DetectPriorityAlerts(alerts.reports))]
    /\ UNCHANGED <<cacheVars, fanVars, kin, feed, crudVars, route, reportsTable>>

\* detectPriorityAlerts as a function of its report list
SpecAlerts == InitAlerts /\ [][RunDetectPriorityAlerts]_vars

-----------------------------------------------------------------------------
(* The /disasters routes: create, update and delete, each followed by    *)
(* the global emit of disaster_updated. Every await of the store is a    *)
(* step boundary.                                                        *)

MaxRequests == 2

\* mockUsers of authenticateUser
MockUsers ==
    [id \in {"netrunnerX", "reliefAdmin", "citizen1"} |->
        [id |-> id, role |-> IF id = "citizen1" THEN "contributor" ELSE "admin"]]

\* the x-user-id header of a request; "" is a request without the header
Headers == {"", "citizen1", "intruder"}

\* authenticateUser: the user put in req.user, or null (the answer is 401)
AuthenticateUser(header) ==
    LET userId == IF header = "" THEN "netrunnerX" ELSE header
    IN  IF userId \in DOMAIN MockUsers THEN Some(MockUsers[userId]) ELSE Null

Requests == 1..Len(http)

NewRequest(op, header, id) ==
    [op |-> op, header |-> header, user |-> AuthenticateUser(header),
     id |-> id, pc |-> "auth",
     status |-> 0, existing |-> Null, audit_trail |-> <<>>,
     \* history: the events this request emitted, by their index in events
     emitted |-> <<>>]

\* uuidv4(): an id no request was given before
UsedIds == {http[h].id : h \in {g \in Requests : http[g].op = "create"}}
Uuidv4 == CHOOSE id \in DisasterIds : id \notin UsedIds

\* mutant: the event goes to the sockets that are in some room
RecipientsInRooms == UNION {rooms[room] : room \in DOMAIN rooms}

\* io.emit: the sockets of the namespace, which are the connected ones
Recipients == {c \in Conns : sockets[c] = "connected"}

\* req.io.emit('disaster_updated', { action, disaster }) by request h.
\* The disaster sent is the row the insert or the update returned (data[0],
\* which is undefined when the update matched no row), or the row the
\* delete route had selected. `connected` is history: the connections
\* connected at the emit.
Emit(h, action, disasterId) ==
    /\ events' = Append(events,
            [name |-> "disaster_updated", action |-> action,
             disaster_id |-> disasterId,
             disaster |-> IF action = "update"
                             /\ disasterId \notin DOMAIN disasters
                          THEN "undefined" ELSE "record",
             connected |-> {c \in Conns : sockets[c] = "connected"}])
    /\ inbox' = [c \in Conns |->
                    IF c \in Recipients
                    THEN Append(inbox[c], Len(events) + 1) ELSE inbox[c]]

\* a request ends with this status; its locals are gone
Answer(h, status) ==
    [http[h] EXCEPT !.pc = "done", !.status = status,
                    !.existing = Null, !.audit_trail = <<>>]

\* mutant: the event is emitted before the store's error is looked at
OutcomeEmitFirst(error, ok) ==
    [status |-> IF error THEN 500 ELSE ok, emit |-> TRUE]

\* `if (error) return res.status(500)...; req.io.emit(...); res.status(ok)`
Outcome(error, ok) ==
    IF error THEN [status |-> 500, emit |-> FALSE]
    ELSE [status |-> ok, emit |-> TRUE]

\* the end of the three writing routes, from the store's answer on
Finish(h, error, ok, action, disasterId) ==
    LET out == Outcome(error, ok)
    IN  IF out.emit
        THEN /\ Emit(h, action, disasterId)
             /\ http' = [http EXCEPT ![h] =
                    [Answer(h, out.status) EXCEPT
                        !.emitted = Append(@, Len(events) + 1)]]
        ELSE /\ http' = [http EXCEPT ![h] = Answer(h, out.status)]
             /\ UNCHANGED <<events, inbox>>

\* a request arrives: authenticateUser answers 401 or lets it through
Arrive(op, header, id) ==
    /\ LET r == NewRequest(op, header, id)
       IN  http' = Append(http,
                IF r.user = Null
                THEN [r EXCEPT !.pc = "done", !.status = 401] ELSE r)
    /\ UNCHANGED <<disasters, sockets, rooms, joined, inbox, events>>
    /\ UNCHANGED <<cacheVars, kin, feed, route, alerts, reportsTable>>

\* POST /disasters arrives
PostDisaster ==
    /\ Len(http) < MaxRequests
    /\ UsedIds # DisasterIds
    /\ \E header \in Headers : Arrive("create", header, Uuidv4)

\* PUT /disasters/:id arrives
PutDisaster ==
    /\ Len(http) < MaxRequests
    /\ \E header \in Headers, id \in DisasterIds : Arrive("update", header, id)

\* DELETE /disasters/:id arrives
DeleteDisaster ==
    /\ Len(http) < MaxRequests
    /\ \E header \in Headers, id \in DisasterIds : Arrive("delete", header, id)

\* POST /disasters: the body is validated, the insert is sent
ValidateBody(h) ==
    /\ http[h].pc = "auth" /\ http[h].op = "create"
    /\ \E valid \in BOOLEAN :
         http' = [http EXCEPT ![h] =
                    IF valid THEN [@ EXCEPT !.pc = "insert"] ELSE Answer(h, 400)]
    /\ UNCHANGED <<disasters, sockets, rooms, joined, inbox, events>>
    /\ UNCHANGED <<cacheVars, kin, feed, route, alerts, reportsTable>>

\* POST /disasters: the insert returns
InsertReturns(h) ==
    /\ http[h].pc = "insert"
    /\ \E error \in BOOLEAN :
         /\ disasters' =
              IF error THEN disasters
              ELSE Upsert(disasters, http[h].id,
                          [owner_id |-> Val(http[h].user).id,
                           audit_trail |-> << [action |-> "create",
                                               user_id |-> Val(http[h].user).id] >>])
         /\ Finish(h, error, 201, "create", http[h].id)
    /\ UNCHANGED <<sockets, rooms, joined>>
    /\ UNCHANGED <<cacheVars, kin, feed, route, alerts, reportsTable>>

\* PUT and DELETE /disasters/:id: the select of the existing disaster is sent
SelectExisting(h) ==
    /\ http[h].pc = "auth" /\ http[h].op \in {"update", "delete"}
    /\ http' = [http EXCEPT ![h].pc = "select"]
    /\ UNCHANGED <<disasters, sockets, rooms, joined, inbox, events>>
    /\ UNCHANGED <<cacheVars, kin, feed, route, alerts, reportsTable>>

\* mutant: every known user may change every disaster
DeniedNobody(existing, user) == FALSE

\* `existing.owner_id !== req.user.id && req.user.role !== 'admin'`
Denied(existing, user) ==
    existing.owner_id # user.id /\ user.role # "admin"

\* PUT and DELETE: the select returns; 404, 403, or the write is sent
SelectReturns(h) ==
    /\ http[h].pc = "select"
    /\ \E fetchError \in BOOLEAN :
         LET r == http[h]
             found == ~fetchError /\ r.id \in DOMAIN disasters
             existing == disasters[r.id]
             user == Val(r.user)
         IN  http' = [http EXCEPT ![h] =
                IF ~found THEN Answer(h, 404)
                ELSE IF Denied(existing, user)
                     THEN Answer(h, 403)
                     ELSE [r EXCEPT !.pc = r.op,
                              !.existing = Some(existing),
                              !.audit_trail =
                                  IF r.op = "update"
                                  THEN Append(existing.audit_trail,
                                              [action |-> "update",
                                               user_id |-> user.id])
                                  ELSE <<>>]]
    /\ UNCHANGED <<disasters, sockets, rooms, joined, inbox, events>>
    /\ UNCHANGED <<cacheVars, kin, feed, route, alerts, reportsTable>>

\* PUT: the update returns. It changes the row that is there now, if any.
UpdateReturns(h) ==
    /\ http[h].pc = "update"
    /\ \E error \in BOOLEAN :
         /\ disasters' =
              IF ~error /\ http[h].id \in DOMAIN disasters
              THEN [disasters EXCEPT ![http[h].id].audit_trail =
                                                     http[h].audit_trail]
              ELSE disasters
         /\ Finish(h, error, 200, "update", http[h].id)
    /\ UNCHANGED <<sockets, rooms, joined>>
    /\ UNCHANGED <<cacheVars, kin, feed, route, alerts, reportsTable>>

\* DELETE: the delete returns
DeleteReturns(h) ==
    /\ http[h].pc = "delete"
    /\ \E error \in BOOLEAN :
         /\ disasters' = IF error THEN disasters
                         ELSE DeleteRow(disasters, http[h].id)
         /\ Finish(h, error, 204, "delete", http[h].id)
    /\ UNCHANGED <<sockets, rooms, joined>>
    /\ UNCHANGED <<cacheVars, kin, feed, route, alerts, reportsTable>>

InitCrud ==
    /\ now = 0
    /\ googleApiKey = ""
    /\ cache = NoRows
    /\ req = [s \in Slots |-> IdleReq]
    /\ calls = 0
    /\ lastSet = NoRows
    /\ sockets = [c \in Conns |-> "new"]
    /\ rooms = NoRows
    /\ joined = [c \in Conns |-> NotJoined]
    /\ inbox = [c \in Conns |-> <<>>]
    /\ events = <<>>
    /\ kin = <<>>
    /\ feed = <<>>
    /\ disasters = NoRows
    /\ http = <<>>
    /\ route = <<>>
    /\ alerts = <<>>
    /\ reportsTable = <<>>

\* the connections that come and go while the routes are served
Clients == {"c1", "c2"}

NextCrud ==
    \/ \E c \in Clients : Connect(c)
    \/ \E c \in Clients : JoinDisaster(c)
    \/ \E c \in Clients : Disconnect(c)
    \/ PostDisaster
    \/ PutDisaster
    \/ DeleteDisaster
    \/ \E h \in Requests : ValidateBody(h)
    \/ \E h \in Requests : InsertReturns(h)
    \/ \E h \in Requests : SelectExisting(h)
    \/ \E h \in Requests : SelectReturns(h)
    \/ \E h \in Requests : UpdateReturns(h)
    \/ \E h \in Requests : DeleteReturns(h)

SpecCrud == InitCrud /\ [][NextCrud]_vars

-----------------------------------------------------------------------------
(* Location extraction and official updates over the cache, and the     *)
(* cache store failing                                                   *)

\* the arguments the four services are called with while the store fails
FaultLocation == <<"L", "A">>
FaultDescription == <<"f", "i", "r", "e">>
FaultDisaster == <<"d", "1">>
FaultTags == << <<"m", "e", "d", "i", "c", "a", "l">> >>

\* GeocodingService.geocodeLocation(locationName)
GeocodeCall(s) ==
    Begin(s, "geocode", FaultLocation, GeocodeKey(FaultLocation))

\* GeminiService.extractLocation(description)
ExtractCall(s) ==
    Begin(s, "extract", FaultDescription, ExtractKey(FaultDescription))

\* SocialMediaService.fetchSocialMediaReports(disasterId, tags)
SocialCall(s) ==
    Begin(s, "social", <<FaultDisaster, FaultTags>>,
          SocialKey(FaultDisaster, FaultTags))

\* UpdatesService.fetchOfficialUpdates(disasterId, location)
UpdatesCall(s) ==
    Begin(s, "updates", <<FaultDisaster, FaultLocation>>,
          UpdatesKey(FaultDisaster, FaultLocation))

\* extractLocation: the call of the NER model returns, or throws into the
\* catch block of extractLocation
HfResponse(s) ==
    /\ req[s].pc = "hf"
    /\ \E resp \in HfResponses :
         LET r == [req[s] EXCEPT !.hf = Some(resp)]
         IN  req' = [req EXCEPT ![s] =
                  IF resp.ok
                  THEN CallSet(r, Some(ResultData(resp.data)), DefaultTtl, now)
                  ELSE ServiceCatch(r)]
    /\ UNCHANGED <<now, googleApiKey, cache, calls, lastSet>>
    /\ UNCHANGED notCache

\* mutant: get has no catch block, the exception reaches the service
GetRethrows(r, how, t) ==
    IF how = "threw"
    THEN ServiceCatch([r EXCEPT !.seen = how, !.got = "raised"])
    ELSE GetReturns([r EXCEPT !.seen = how], Null, t)

\* CacheService.get when the select fails: `if (error || !data) return
\* null` for an error in the answer, the catch block for an exception
GetFails(r, how, t) == GetReturns([r EXCEPT !.seen = how], Null, t)

\* CacheService.get: the select comes back with an error, or throws
CacheSelectFails(s) ==
    /\ req[s].pc = "select"
    /\ \E how \in {"error", "threw"} :
         req' = [req EXCEPT ![s] = GetFails(req[s], how, now)]
    /\ UNCHANGED <<now, googleApiKey, cache, calls, lastSet>>
    /\ UNCHANGED notCache

\* CacheService.delete fails: its catch block logs, get returns null and
\* the expired row stays
CacheDeleteFails(s) ==
    /\ req[s].pc = "delete"
    /\ req' = [req EXCEPT ![s] =
                  GetReturns([req[s] EXCEPT !.delFault = TRUE], Null, now)]
    /\ UNCHANGED <<now, googleApiKey, cache, calls, lastSet>>
    /\ UNCHANGED notCache

\* mutant: neither set nor the service has a catch block, the exception
\* of the upsert leaves the service
SetEscapes(r) ==
    [Return([r EXCEPT !.setFault = TRUE], Null) EXCEPT !.got = "raised"]

\* mutant: set has no catch block, the exception reaches the service
SetRethrows(r) == ServiceCatch([r EXCEPT !.setFault = TRUE])

\* CacheService.set when the upsert fails: the error is logged, set
\* returns, the service returns its result
SetFails(r) == Return([r EXCEPT !.setFault = TRUE], r.result)

\* CacheService.set: the upsert comes back with an error, or throws
CacheUpsertFails(s) ==
    /\ req[s].pc = "upsert"
    /\ req' = [req EXCEPT ![s] = SetFails(req[s])]
    /\ UNCHANGED <<now, googleApiKey, cache, calls, lastSet>>
    /\ UNCHANGED notCache

\* the four services over a cache store that can fail at every call
NextFault ==
    \/ \E s \in Slots : GeocodeCall(s)
    \/ \E s \in Slots : ExtractCall(s)
    \/ \E s \in Slots : SocialCall(s)
    \/ \E s \in Slots : UpdatesCall(s)
    \/ \E s \in Slots : CacheStep(s)
    \/ \E s \in Slots : CacheSelectFails(s)
    \/ \E s \in Slots : CacheDeleteFails(s)
    \/ \E s \in Slots : CacheUpsertFails(s)
    \/ \E s \in Slots : GoogleResponse(s)
    \/ \E s \in Slots : NominatimResponse(s)
    \/ \E s \in Slots : HfResponse(s)
    \/ Tick

SpecFault == Init /\ [][NextFault]_vars

-----------------------------------------------------------------------------
(* POST /geocode: extraction, then the resolver *)

\* values of the JSON body: a field left out, a string, a number
Undefined == [type |-> "undefined", str |-> <<>>]
Str(s) == [type |-> "string", str |-> s]
Number42 == [type |-> "number", str |-> <<>>]

\* what `!x` and `if (x)` make of such a value
IsTruthy(v) == v.type = "number" \/ (v.type = "string" /\ v.str # <<>>)

\* the bodies of the requests
BodyDescriptions == {Undefined, Number42, Str(FaultDescription)}
BodyLocationNames ==
    {Undefined, Number42, Str(FaultLocation), Str(ExtractionFailed)}

GeocodeRequests == 1..Len(route)

NoBody ==
    [error |-> "", extracted_location |-> Undefined,
     location_name |-> Undefined, coordinates |-> Null]

NewGeocodeRequest(description, location_name) ==
    [description |-> description, location_name |-> location_name,
     pc |-> "start", slot |-> 0, locationToGeocode |-> location_name,
     status |-> 0, body |-> NoBody,
     \* history, for stating the properties:
     extracted |-> FALSE,   \* extractLocation was called
     raised |-> "",         \* the service method that raised, if one did
     extraction |-> Null,   \* what extractLocation returned
     hf |-> Null,           \* what the NER model answered to extractLocation
     resolved |-> Null,     \* the text geocodeLocation was called with
     coordinates |-> Null,  \* what geocodeLocation returned
     providers |-> {}]      \* the providers geocodeLocation called

\* the request in position h becomes r
Put(h, r) == IF h > Len(route) THEN Append(route, r) ELSE [route EXCEPT ![h] = r]

\* res.status(status).json(body)
Respond(r, status, body) ==
    [r EXCEPT !.pc = "done", !.slot = 0, !.status = status, !.body = body]

\* no request but h is waiting for the call in slot s
NotAwaited(s, h) ==
    \A g \in GeocodeRequests \ {h} :
        route[g].pc \in {"extract", "geocode"} => route[g].slot # s

\* mutant: only an empty text stops the request
UnusableWhenEmpty(loc) == ~IsTruthy(loc)

\* `!locationToGeocode || locationToGeocode === 'Location extraction failed'`
Unusable(loc) == ~IsTruthy(loc) \/ loc = Str(ExtractionFailed)

\* mutant: the description is reported in place of the text geocoded
GeocodeFailedBodyDescription(description, loc) ==
    [NoBody EXCEPT !.error = "geocode", !.location_name = description]

\* { error: 'Could not geocode location', location_name: locationToGeocode }
GeocodeFailedBody(description, loc) ==
    [NoBody EXCEPT !.error = "geocode", !.location_name = loc]

\* { original_description, extracted_location: locationToGeocode,
\*   coordinates, timestamp }
ResultBody(loc, coordinates) ==
    [NoBody EXCEPT !.extracted_location = loc, !.coordinates = coordinates]

\* the route from `if (!locationToGeocode || ...)` to the call of
\* geocodeLocation: 422, or the call, which raises at once (Buffer.from)
\* when its argument is not a string
Resolve(h, r, loc) ==
    IF Unusable(loc)
    THEN /\ route' = Put(h, Respond(r, 422,
                [NoBody EXCEPT !.error = "extract", !.extracted_location = loc]))
         /\ UNCHANGED <<now, googleApiKey, cache, lastSet, req>>
    ELSE IF loc.type # "string"
    THEN /\ route' = Put(h, Respond([r EXCEPT !.raised = "geocodeLocation"],
                                     500, NoBody))
         /\ UNCHANGED <<now, googleApiKey, cache, lastSet, req>>
    ELSE \E s \in Slots :
            /\ NotAwaited(s, h)
            /\ Invoke(s, "geocode", loc.str, GeocodeKey(loc.str))
            /\ route' = Put(h, [r EXCEPT !.pc = "geocode", !.slot = s,
                                         !.resolved = Some(loc.str)])

\* POST /geocode arrives: 400, or extractLocation is called (it raises at
\* once when the description is not a string), or the location given is
\* taken
PostGeocode ==
    /\ Len(route) < MaxRequests
    /\ \A g \in GeocodeRequests : route[g].pc = "done"
    /\ \E description \in BodyDescriptions, location_name \in BodyLocationNames :
         LET h == Len(route) + 1
             r == NewGeocodeRequest(description, location_name)
         IN  IF ~IsTruthy(description) /\ ~IsTruthy(location_name)
             THEN /\ route' = Put(h, Respond(r, 400,
                                   [NoBody EXCEPT !.error = "required"]))
                  /\ UNCHANGED <<now, googleApiKey, cache, lastSet, req>>
             ELSE IF IsTruthy(location_name)
             THEN Resolve(h, r, location_name)
             ELSE IF description.type # "string"
             THEN /\ route' = Put(h, Respond(
                        [r EXCEPT !.extracted = TRUE,
                                  !.raised = "extractLocation"], 500, NoBody))
                  /\ UNCHANGED <<now, googleApiKey, cache, lastSet, req>>
             ELSE \E s \in Slots :
                     /\ NotAwaited(s, h)
                     /\ Invoke(s, "extract", description.str,
                               ExtractKey(description.str))
                     /\ route' = Put(h, [r EXCEPT !.pc = "extract", !.slot = s,
                                                  !.extracted = TRUE])
    /\ UNCHANGED <<calls, fanVars, kin, feed, crudVars, alerts, reportsTable>>

\* extractLocation has returned: locationToGeocode = locationResult.location
Extracted(h) ==
    /\ route[h].pc = "extract"
    /\ req[route[h].slot].pc = "done"
    /\ LET call == req[route[h].slot]
           loc == Str(Val(call.result).location)
           r == [route[h] EXCEPT !.locationToGeocode = loc,
                                 !.extraction = call.result,
                                 !.hf = call.hf]
       IN  Resolve(h, r, loc)
    /\ UNCHANGED <<calls, fanVars, kin, feed, crudVars, alerts, reportsTable>>

\* geocodeLocation has returned: 422 without coordinates, the result with
Geocoded(h) ==
    /\ route[h].pc = "geocode"
    /\ req[route[h].slot].pc = "done"
    /\ LET call == req[route[h].slot]
           coordinates == call.result
           r == [route[h] EXCEPT
                    !.coordinates = coordinates,
                    !.providers =
                        (IF call.google # Null THEN {"google"} ELSE {})
                        \cup (IF call.nominatim # Null THEN {"nominatim"} ELSE {})]
       IN  route' = Put(h,
              IF ~Truthy(coordinates)
              THEN Respond(r, 422,
                       GeocodeFailedBody(r.description, r.locationToGeocode))
              ELSE Respond(r, 200, ResultBody(r.locationToGeocode, coordinates)))
    /\ UNCHANGED <<cacheVars, fanVars, kin, feed, crudVars, alerts, reportsTable>>

InitRoute ==
    /\ now = 0
    /\ googleApiKey \in GoogleApiKeys
    /\ cache = NoRows
    /\ req = [s \in Slots |-> IdleReq]
    /\ calls = 0
    /\ lastSet = NoRows
    /\ sockets = <<>>
    /\ rooms = <<>>
    /\ joined = <<>>
    /\ inbox = <<>>
    /\ events = <<>>
    /\ kin = <<>>
    /\ feed = <<>>
    /\ disasters = <<>>
    /\ http = <<>>
    /\ route = <<>>
    /\ alerts = <<>>
    /\ reportsTable = <<>>

NextRoute ==
    \/ PostGeocode
    \/ \E h \in GeocodeRequests : Extracted(h)
    \/ \E h \in GeocodeRequests : Geocoded(h)
    \/ \E s \in Slots : CacheStep(s)
    \/ \E s \in Slots : HfResponse(s)
    \/ \E s \in Slots : GoogleResponse(s)
    \/ \E s \in Slots : NominatimResponse(s)
    \/ Tick

SpecRoute == InitRoute /\ [][NextRoute]_vars

-----------------------------------------------------------------------------
(* Calls of one location racing on one row of the cache *)

MaxRaceCalls == 3

\* GeocodingService.geocodeLocation(locationName), always the same text
GeocodeSame(s) ==
    /\ calls < MaxRaceCalls
    /\ calls' = calls + 1
    /\ Invoke(s, "geocode", FaultLocation, GeocodeKey(FaultLocation))
    /\ UNCHANGED notCache

NextRace ==
    \/ \E s \in Slots : GeocodeSame(s)
    \/ \E s \in Slots : CacheStep(s)
    \/ \E s \in Slots : GoogleResponse(s)
    \/ \E s \in Slots : NominatimResponse(s)
    \/ Tick

SpecRace == Init /\ [][NextRace]_vars

\* the resolver when every step the server itself takes is taken in the
\* end: the store answers each select, delete and upsert. Nothing makes a
\* provider answer, and geocodeWithGoogle and geocodeWithNominatim pass no
\* timeout to axios.get, so no step of the server ends a call that waits.
SpecGeoLive ==
    Init /\ [][NextGeo]_vars /\ \A s \in Slots : WF_vars(CacheStep(s))

-----------------------------------------------------------------------------
(* The read-only routes of a disaster and the fan-out *)

\* the request is logged with the connections its handler sent an event to
Served(op, disasterId, status, delivered) ==
    /\ Len(http) < MaxRequests
    /\ http' = Append(http, [op |-> op, disaster_id |-> disasterId,
                             status |-> status, delivered |-> delivered])

\* the handler answers without an emit
Silent == UNCHANGED <<inbox, events>>

\* GET /disasters/:id/resources: 400 without lat and lon, 404 without the
\* disaster, the fallback query when find_nearby_resources fails, and else
\* io.to(`disaster_${disasterId}`).emit('resources_updated', ...)
GetResources ==
    /\ \E disasterId \in DisasterIds, latLon, found, rpcError \in BOOLEAN :
         IF ~latLon
         THEN Served("GET resources", disasterId, 400, {}) /\ Silent
         ELSE IF ~found
         THEN Served("GET resources", disasterId, 404, {}) /\ Silent
         ELSE IF rpcError
         THEN Served("GET resources", disasterId, 200, {}) /\ Silent
         ELSE /\ Served("GET resources", disasterId, 200,
                        Members(RoomName(disasterId)))
              /\ EmitTo(RoomName(disasterId), "resources_updated", disasterId)
    /\ UNCHANGED <<sockets, rooms, joined>>
    /\ UNCHANGED <<cacheVars, kin, feed, disasters, route, alerts, reportsTable>>

\* the searchTags of the requests: none (every report is returned) and two
\* tags that no report matches
ReadTags == { <<>>, << <<"d">>, <<"x">> >> }

\* GET /disasters/:id/social-media: 404 without the disaster, and else,
\* `if (reports.length > 0)`,
\* io.to(`disaster_${disasterId}`).emit('social_media_updated', ...)
GetSocialMedia ==
    /\ \E disasterId \in DisasterIds, found \in BOOLEAN, tags \in ReadTags :
         IF ~found
         THEN Served("GET social-media", disasterId, 404, {}) /\ Silent
         ELSE IF Len(FilterReports(tags)) > 0
         THEN /\ Served("GET social-media", disasterId, 200,
                        Members(RoomName(disasterId)))
              /\ EmitTo(RoomName(disasterId), "social_media_updated",
                        disasterId)
         ELSE Served("GET social-media", disasterId, 200, {}) /\ Silent
    /\ UNCHANGED <<sockets, rooms, joined>>
    /\ UNCHANGED <<cacheVars, kin, feed, disasters, route, alerts, reportsTable>>

\* GET /disasters/:id/official-updates: 404 without the disaster, and else
\* the updates; the handler has no emit
GetOfficialUpdates ==
    /\ \E disasterId \in DisasterIds, found \in BOOLEAN :
         Served("GET official-updates", disasterId,
                IF found THEN 200 ELSE 404, {})
    /\ Silent
    /\ UNCHANGED <<sockets, rooms, joined>>
    /\ UNCHANGED <<cacheVars, kin, feed, disasters, route, alerts, reportsTable>>

NextReads ==
    \/ \E c \in Clients : Connect(c)
    \/ \E c \in Clients : JoinDisaster(c)
    \/ \E c \in Clients : Disconnect(c)
    \/ GetResources
    \/ GetSocialMedia
    \/ GetOfficialUpdates

SpecReads == InitFan /\ [][NextReads]_vars

-----------------------------------------------------------------------------
(* Calls of several locations, so that rows of several keys come and go *)

\* GeocodingService.geocodeLocation(locationName)
GeocodeAny(s) ==
    /\ calls < MaxRaceCalls
    /\ calls' = calls + 1
    /\ \E locationName \in LocationNames :
         Invoke(s, "geocode", locationName, GeocodeKey(locationName))
    /\ UNCHANGED notCache

NextRows ==
    \/ \E s \in Slots : GeocodeAny(s)
    \/ \E s \in Slots : CacheStep(s)
    \/ \E s \in Slots : GoogleResponse(s)
    \/ \E s \in Slots : NominatimResponse(s)
    \/ Tick

SpecRows == Init /\ [][NextRows]_vars

-----------------------------------------------------------------------------
(* PUT and DELETE requests on a disaster that is in the table from the    *)
(* start: the migration inserts sample disasters, owned by netrunnerX and *)
(* reliefAdmin, with the default audit_trail '[]'                         *)

SeededId == <<"d", "1">>

InitStore ==
    /\ now = 0
    /\ googleApiKey = ""
    /\ cache = NoRows
    /\ req = [s \in Slots |-> IdleReq]
    /\ calls = 0
    /\ lastSet = NoRows
    /\ sockets = [c \in Conns |-> "new"]
    /\ rooms = NoRows
    /\ joined = [c \in Conns |-> NotJoined]
    /\ inbox = [c \in Conns |-> <<>>]
    /\ events = <<>>
    /\ kin = <<>>
    /\ feed = <<>>
    /\ disasters = Upsert(NoRows, SeededId,
                          [owner_id |-> "netrunnerX", audit_trail |-> <<>>])
    /\ http = <<>>
    /\ route = <<>>
    /\ alerts = <<>>
    /\ reportsTable = <<>>

NextStore ==
    \/ Connect("c1")
    \/ PutDisaster
    \/ DeleteDisaster
    \/ \E h \in Requests : SelectExisting(h)
    \/ \E h \in Requests : SelectReturns(h)
    \/ \E h \in Requests : UpdateReturns(h)
    \/ \E h \in Requests : DeleteReturns(h)

SpecStore == InitStore /\ [][NextStore]_vars

-----------------------------------------------------------------------------
(* POST /disasters/:id/verify-image: image verification over the cache, *)
(* then the insert of a report                                           *)

ImagePrefix == <<"i", "m", "a", "g", "e", "_", "v", "e", "r", "i", "f", "y", "_">>

\* `image_verify_${Buffer.from(imageUrl).toString('base64')}`
ImageKey(imageUrl) == ImagePrefix \o ToBase64(BufferFrom(imageUrl))

\* CHECK (verification_status IN ('pending', 'authentic', 'suspicious',
\* 'manipulated', 'error')) of the reports table
AllowedStatuses == {"pending", "authentic", "suspicious", "manipulated", "error"}

\* image_url of the body: left out, or the URL of an image
ImageUrls == {Null, Some(<<"u">>)}

NewVerifyRequest(header, id, image_url) ==
    [op |-> "verify-image", header |-> header,
     user |-> AuthenticateUser(header), id |-> id, image_url |-> image_url,
     pc |-> "select", slot |-> 0, status |-> 0,
     verification |-> Null,  \* the local `verification`
     report |-> Null,        \* the report of the response body
     \* history, for stating the properties:
     storeError |-> FALSE]   \* the store failed the insert of a valid row

\* POST /disasters/:id/verify-image arrives: authenticateUser answers 401
\* or lets it through, and the select of the disaster is sent
PostVerifyImage ==
    /\ Len(http) < MaxRequests
    /\ \A g \in Requests : http[g].pc = "done"
    /\ \E header \in Headers, id \in DisasterIds, image_url \in ImageUrls :
         LET r == NewVerifyRequest(header, id, image_url)
         IN  http' = Append(http,
                IF r.user = Null
                THEN [r EXCEPT !.pc = "done", !.status = 401] ELSE r)
    /\ UNCHANGED <<cacheVars, fanVars, kin, feed, disasters, route, alerts,
                   reportsTable>>

\* the select of the disaster returns: 404, or `verification` is
\* 'not_provided' without an image_url, or verifyImage(image_url) is called
DisasterSelected(h) ==
    /\ http[h].pc = "select"
    /\ \E disasterError \in BOOLEAN :
         LET r == http[h]
         IN  IF disasterError \/ r.id \notin DOMAIN disasters
             THEN /\ http' = [http EXCEPT ![h] =
                                [r EXCEPT !.pc = "done", !.status = 404]]
                  /\ UNCHANGED <<now, googleApiKey, cache, lastSet, req>>
             ELSE IF r.image_url = Null
             THEN /\ http' = [http EXCEPT ![h] =
                        [r EXCEPT !.pc = "insert",
                            !.verification = Some([status |-> "not_provided"])]]
                  /\ UNCHANGED <<now, googleApiKey, cache, lastSet, req>>
             ELSE \E s \in Slots :
                     /\ Invoke(s, "verify", Val(r.image_url),
                               ImageKey(Val(r.image_url)))
                     /\ http' = [http EXCEPT ![h] =
                                   [r EXCEPT !.pc = "verify", !.slot = s]]
    /\ UNCHANGED <<calls, fanVars, kin, feed, disasters, route, alerts,
                   reportsTable>>

\* verifyImage: the download of the image returns, or throws into the catch
\* block of verifyImage
ImageResponse(s) ==
    /\ req[s].pc = "image"
    /\ \E ok \in BOOLEAN :
         req' = [req EXCEPT ![s] =
                    IF ok THEN [req[s] EXCEPT !.pc = "classify"]
                    ELSE ServiceCatch(req[s])]
    /\ UNCHANGED <<now, googleApiKey, cache, calls, lastSet>>
    /\ UNCHANGED notCache

\* verifyImage: the call of the image model returns and the result, of
\* status 'analyzed', is cached, or the call throws into the catch block
ClassifyResponse(s) ==
    /\ req[s].pc = "classify"
    /\ \E ok \in BOOLEAN :
         req' = [req EXCEPT ![s] =
                    IF ok
                    THEN CallSet(req[s], Some([status |-> "analyzed"]),
                                 DefaultTtl, now)
                    ELSE ServiceCatch(req[s])]
    /\ UNCHANGED <<now, googleApiKey, cache, calls, lastSet>>
    /\ UNCHANGED notCache

\* verifyImage has returned: `verification` is its result, the insert of
\* the report is sent
Verified(h) ==
    /\ http[h].pc = "verify"
    /\ req[http[h].slot].pc = "done"
    /\ http' = [http EXCEPT ![h] =
                  [@ EXCEPT !.pc = "insert", !.slot = 0,
                            !.verification = req[http[h].slot].result]]
    /\ UNCHANGED <<cacheVars, fanVars, kin, feed, disasters, route, alerts,
                   reportsTable>>

\* the insert of the report returns: the table takes the row when its
\* verification_status passes the CHECK and the store does not fail;
\* with or without an error the route answers 200
ReportInserted(h) ==
    /\ http[h].pc = "insert"
    /\ \E storeError \in BOOLEAN :
         LET r == http[h]
             newReport == [disaster_id |-> r.id, user_id |-> Val(r.user).id,
                           image_url |-> r.image_url,
                           verification_status |-> Val(r.verification).status]
             error == storeError
                      \/ newReport.verification_status \notin AllowedStatuses
         IN  IF error
             THEN /\ http' = [http EXCEPT ![h] =
                        [r EXCEPT !.pc = "done", !.status = 200,
                                  !.storeError = storeError]]
                  /\ UNCHANGED reportsTable
             ELSE /\ reportsTable' = Append(reportsTable, newReport)
                  /\ http' = [http EXCEPT ![h] =
                        [r EXCEPT !.pc = "done", !.status = 200,
                                  !.report = Some(newReport)]]
    /\ UNCHANGED <<cacheVars, fanVars, kin, feed, disasters, route, alerts>>

NextVerify ==
    \/ PostVerifyImage
    \/ \E h \in Requests : DisasterSelected(h)
    \/ \E s \in Slots : CacheStep(s)
    \/ \E s \in Slots : ImageResponse(s)
    \/ \E s \in Slots : ClassifyResponse(s)
    \/ \E h \in Requests : Verified(h)
    \/ \E h \in Requests : ReportInserted(h)
    \/ Tick

SpecVerify == InitStore /\ [][NextVerify]_vars

-----------------------------------------------------------------------------
(* Properties of the cache and the geocoding resolver (SpecGeo) *)

\* the expiry test of the call in slot s has been made
Tested(s) == req[s].pc \notin {"idle", "select", "check"}

Done(s, kind) == req[s].pc = "done" /\ req[s].kind = kind

\* C1: get(key) returns the stored value iff a row for key exists and
\* now < expiresAt at the expiry test; at now >= expiresAt (now = expiresAt
\* included) it returns absent.
C1_ExpiryCorrectness ==
    \A s \in Slots :
        Tested(s) => (Truthy(req[s].cached) <=> req[s].fresh)

\* a provider answered with at least one candidate
GoogleUsable(r) ==
    r.google # Null /\ Val(r.google).ok /\ Len(Val(r.google).results) > 0
NominatimUsable(r) ==
    r.nominatim # Null /\ Val(r.nominatim).ok /\ Len(Val(r.nominatim).data) > 0

Returned(r) == r.pc \in {"upsert", "done"}

\* C3: when Google returns a usable result Nominatim is never invoked and
\* the coordinates are Google's first candidate; when Google fails and
\* Nominatim succeeds the coordinates are Nominatim's first candidate.
C3_FallbackShortCircuit ==
    \A s \in Slots :
        LET r == req[s]
        IN  /\ GoogleUsable(r) =>
                /\ r.nominatim = Null
                /\ Returned(r) =>
                     r.result = Some([lat |-> Val(r.google).results[1].lat,
                                      lng |-> Val(r.google).results[1].lng])
            /\ (~GoogleUsable(r) /\ NominatimUsable(r)) =>
                /\ Returned(r)
                /\ Val(r.nominatim).data[1] = N1 =>
                     r.result = Some([lat |-> 41, lng |-> -75])

\* C3 witness: one call answered from Google's first candidate, another
\* from Nominatim's after Google failed
C3_Witness ==
    \E s, u \in Slots :
        /\ GoogleUsable(req[s]) /\ Done(s, "geocode") /\ req[s].result = Some(G1)
        /\ req[u].google # Null /\ ~GoogleUsable(req[u]) /\ NominatimUsable(req[u])
        /\ Done(u, "geocode") /\ req[u].result = Some([lat |-> 41, lng |-> -75])

\* C4: when every provider fails, geocodeLocation returns absent, every
\* provider was attempted and nothing was written to the cache: no row ever
\* holds a failed resolution.
C4_NoNegativeCaching ==
    /\ \A s \in Slots :
          (Done(s, "geocode") /\ req[s].result = Null) =>
              /\ ~req[s].wrote
              /\ req[s].cached = Null
              /\ req[s].nominatim # Null /\ ~NominatimUsable(req[s])
              /\ GoogleConfigured => (req[s].google # Null /\ ~GoogleUsable(req[s]))
    /\ \A k \in DOMAIN cache : cache[k].value # Null
    /\ \A s \in Slots : req[s].wrote => req[s].result # Null

\* C4 witness: a failed resolution after which the key is absent, and a
\* retry of the same text that is attempting the providers again
C4_Witness ==
    \E s, u \in Slots :
        /\ Done(s, "geocode") /\ req[s].result = Null /\ req[s].google # Null
        /\ ~HasRow(GeocodeKey(req[s].arg))
        /\ req[u].kind = "geocode" /\ req[u].arg = req[s].arg
        /\ req[u].pc = "nominatim" /\ req[u].google # Null

\* C5: a call of geocodeLocation(text) whose expiry test comes less than one
\* hour after the last successful call for the text cached its coordinates
\* (no other call for the text overlapping it) returns those coordinates
\* and makes no provider call; the row of a key holds the coordinates last
\* cached for it, expiring one hour after that write was made.
C5_GeocodeCacheHit ==
    /\ \A s \in Slots :
          (Done(s, "geocode") /\ req[s].alone /\ req[s].within) =>
              /\ req[s].result = Val(req[s].prev)
              /\ req[s].result # Null
              /\ req[s].google = Null /\ req[s].nominatim = Null
              /\ ~req[s].wrote
    /\ DOMAIN cache \subseteq {GeocodeKey(l) : l \in LocationNames}
    /\ \A l \in LocationNames :
          HasRow(GeocodeKey(l)) =>
              /\ <<"geocode", l>> \in DOMAIN lastSet
              /\ cache[GeocodeKey(l)] =
                    [value |-> lastSet[<<"geocode", l>>].value,
                     expires_at |-> lastSet[<<"geocode", l>>].at + Hour]

\* C5 witness: a second call, a tick before the hour is over, answered
\* with the coordinates the first call cached
C5_Witness ==
    \E s \in Slots :
        /\ Done(s, "geocode") /\ req[s].alone /\ req[s].within
        /\ req[s].google = Null /\ req[s].nominatim = Null
        /\ req[s].result = lastSet[<<"geocode", req[s].arg>>].value
        /\ now = lastSet[<<"geocode", req[s].arg>>].at + Hour - 1
        /\ calls = 2

-----------------------------------------------------------------------------
(* Properties of the social media feed (SpecSocial) *)

\* C6: a second call of fetchSocialMediaReports with the same arguments,
\* less than 30 minutes after the first cached its list (no other call of
\* the query overlapping it), returns that list from the cache and does not
\* run generateMockReports.
C6_SocialCacheWindow ==
    \A s \in Slots :
        (Done(s, "social") /\ req[s].alone /\ req[s].within) =>
            /\ ~req[s].generated
            /\ req[s].result = Val(req[s].prev)

\* the same letter, whatever the case
SameLetter(x, y) ==
    \/ x = y
    \/ \E i \in 1..Len(Upper) :
          {x, y} = {Upper[i], Lower[i]}

\* tag occurs in keyword, case-insensitively, as a substring
ContainsIgnoreCase(keyword, tag) ==
    \E a \in 0..Len(keyword) :
        /\ a + Len(tag) <= Len(keyword)
        /\ \A j \in 1..Len(tag) : SameLetter(keyword[a + j], tag[j])

\* the report of MockData with this id matches the tag list
TagMatch(id, tags) ==
    \E n \in 1..Len(MockData) :
        /\ MockData[n].id = id
        /\ \E i \in 1..Len(tags), k \in 1..Len(MockData[n].keywords) :
              ContainsIgnoreCase(MockData[n].keywords[k], tags[i])

ReportIds(list) == {list[i].id : i \in 1..Len(list)}

\* C7: a call with a non-empty tag list returns only items that match its
\* own tag filter, on a cache hit as on a miss.
C7_OwnFilterOnly ==
    \A s \in Slots :
        (Done(s, "social") /\ Len(req[s].arg[2]) > 0) =>
            \A id \in ReportIds(Val(req[s].result)) : TagMatch(id, req[s].arg[2])

\* C8: on a cache miss, with a non-empty tag list a report is returned iff
\* one of its keywords contains one of the tags, case-insensitively, as a
\* substring ({food, shelter, need} is kept for foo and dropped for medical
\* alone); with an empty tag list every report is returned; the reports
\* come in the order of mockData.
C8_TagFilterSemantics ==
    feed.reports # Null =>
        LET tags == feed.tags
            list == Val(feed.reports)
        IN  /\ Len(tags) = 0 => ReportIds(list) = {1, 2, 3, 4}
            /\ Len(tags) > 0 =>
                  \A id \in 1..4 : id \in ReportIds(list) <=> TagMatch(id, tags)
            /\ \A i, j \in 1..Len(list) : i < j => list[i].id < list[j].id
            /\ (\E i \in 1..Len(tags) : tags[i] = <<"f", "o", "o">>)
                  => 1 \in ReportIds(list)
            /\ tags = << <<"m", "e", "d", "i", "c", "a", "l">> >>
                  => ReportIds(list) = {4}

\* C8 witness: {food, shelter, need} is kept when the tags include FOO,
\* although x matches nothing
C8_Witness ==
    /\ feed.reports # Null
    /\ feed.tags = << <<"x">>, <<"F", "O", "O">> >>
    /\ ReportIds(Val(feed.reports)) = {1}

-----------------------------------------------------------------------------
(* Properties of the fan-out (SpecFan) *)

Received(c, e) == \E i \in 1..Len(inbox[c]) : inbox[c][i] = e

\* C2: an event emitted to the scope of disaster D is delivered to exactly
\* the connections that have joined D and are connected at publish time: a
\* connection that joined only X never receives an event scoped to Y, one
\* that joined X and Y receives the events of both.
C2_FanOutScoping ==
    \A e \in 1..Len(events) : \A c \in Conns :
        Received(c, e) <=> c \in events[e].subscribers

\* C2 witness: c1 and c2 joined d1, c3 joined d2; the event scoped to d1
\* reached exactly c1 and c2
C2_Witness ==
    /\ \A c \in Conns :
          /\ HasJoined(c, <<"d", "2">>) <=> c = "c3"
          /\ HasJoined(c, <<"d", "1">>) <=> c # "c3"
    /\ Len(events) = 1 /\ events[1].disaster_id = <<"d", "1">>
    /\ inbox = [c \in Conns |-> IF c = "c3" THEN <<>> ELSE <<1>>]

-----------------------------------------------------------------------------
(* Properties of the cache keys (SpecKeys) *)

Derived == kin.keyA # Null

SameTagSet(t, u) ==
    {t[i] : i \in 1..Len(t)} = {u[i] : i \in 1..Len(u)}

\* a tag the key encoding cannot confuse: not empty, no underscore
PlainTags(t) == \A i \in 1..Len(t) : t[i] # <<>> /\ ~Has(t[i], "_")

Different(qa, qb) ==
    IF qa.family = "social" /\ qb.family = "social"
    THEN qa.id # qb.id \/ FilterReports(qa.tags) # FilterReports(qb.tags)
    ELSE qa # qb

\* C10: two semantically different queries never derive the same key,
\* within a key family and across the families.
C10_KeysCollisionFree ==
    (Derived /\ Different(kin.a, kin.b)) => kin.keyA # kin.keyB

-----------------------------------------------------------------------------
(* Properties of detectPriorityAlerts (SpecAlerts) *)

\* the content contains one of the words, case-insensitively, as a substring
ContainsAnyOf(content, words) ==
    \E w \in words : ContainsIgnoreCase(content, w)

\* the result is the sub-list, in order, of the reports whose content
\* contains one of the words
KeepsExactly(words) ==
    alerts.result # Null =>
        Val(alerts.result) =
            SelectSeq(alerts.reports,
                      LAMBDA report : ContainsAnyOf(report.content, words))

ListedKeywords == { <<"u", "r", "g", "e", "n", "t">>, <<"s", "o", "s">>,
                    <<"e", "m", "e", "r", "g", "e", "n", "c", "y">>,
                    <<"t", "r", "a", "p", "p", "e", "d">>,
                    <<"c", "r", "i", "t", "i", "c", "a", "l">> }

\* C20, as stated: detectPriorityAlerts returns exactly the items whose
\* content contains, case-insensitively, one of urgent, sos, emergency,
\* trapped, critical; content with none of these is excluded.
C20_ListedKeywordsOnly == KeepsExactly(ListedKeywords)

\* C20, amended: detectPriorityAlerts returns exactly the items whose content
\* contains, case-insensitively, one of urgent, sos, emergency, help, trapped,
\* critical: content containing URGENT in any case is included, content
\* with none of the six is excluded.
C20_PriorityAlerts ==
    KeepsExactly(ListedKeywords \cup { <<"h", "e", "l", "p">> })

\* a list of an upper-case URGENT and a calm report was filtered to the first
C20_Witness ==
    /\ alerts.result # Null
    /\ Len(alerts.reports) = 2
    /\ alerts.reports[1].content = <<"U", "R", "G", "E", "N", "T">>
    /\ alerts.reports[2].content = <<"a", "l", "l", " ", "c", "a", "l", "m">>
    /\ Len(Val(alerts.result)) = 1

-----------------------------------------------------------------------------
(* Properties of the /disasters routes and the global emit (SpecCrud) *)

\* the number of times event e is in the inbox of connection c
Deliveries(c, e) == Cardinality({i \in 1..Len(inbox[c]) : inbox[c][i] = e})

GlobalEvents == {e \in 1..Len(events) : events[e].name = "disaster_updated"}

\* C11: a disaster_updated event, emitted with io.emit, is delivered (once)
\* to every connection that was connected when it was published, whatever
\* disasters the connection has or has not joined, and to no other.
C11_GlobalDelivery ==
    \A e \in GlobalEvents : \A c \in Conns :
        Deliveries(c, e) = IF c \in events[e].connected THEN 1 ELSE 0

\* an event was published while one connection that joined a disaster and
\* one that joined none were connected, and both received it
C11_Witness ==
    \E e \in GlobalEvents : \E c, d \in events[e].connected :
        /\ joined[c] # NotJoined /\ joined[d] = NotJoined
        /\ Deliveries(c, e) = 1 /\ Deliveries(d, e) = 1
        /\ events[e].connected # Conns

Succeeded(h) == http[h].pc = "done" /\ http[h].status \in {200, 201, 204}
Failed(h) == http[h].pc = "done" /\ http[h].status \in {400, 401, 403, 404, 500}

\* C12: a create, update or delete that completes successfully has emitted
\* exactly one disaster_updated event, whose action is the operation; a
\* request that fails (400, 401, 403, 404, 500) or has not completed has
\* emitted none; every event published belongs to one request.
C12_OneFanOutPerWrite ==
    /\ \A h \in Requests :
         /\ http[h].pc = "done" => Succeeded(h) \/ Failed(h)
         /\ Succeeded(h) =>
              /\ Len(http[h].emitted) = 1
              /\ http[h].emitted[1] \in GlobalEvents
              /\ events[http[h].emitted[1]].action = http[h].op
         /\ ~Succeeded(h) => http[h].emitted = <<>>
    /\ \A e \in 1..Len(events) :
         Cardinality({h \in Requests :
                         \E i \in 1..Len(http[h].emitted) :
                             http[h].emitted[i] = e}) = 1

\* a create succeeded and an update of the disaster failed at the store
C12_Witness ==
    \E g, h \in Requests :
        /\ Succeeded(g) /\ http[g].op = "create"
        /\ http[h].pc = "done" /\ http[h].op = "update"
        /\ http[h].status = 500 /\ http[h].id = http[g].id
        /\ Len(events) = 1

-----------------------------------------------------------------------------
(* Properties of the services when the cache store fails (SpecFault) *)

StoreFailedOnGet(r) == r.seen \in {"error", "threw"} \/ r.delFault

\* C13: CacheService.get never raises to its caller; when the select fails
\* (an error in the answer or an exception), when there is no row, and when
\* the row has expired (also when deleting it fails), get returns null; it
\* returns a value only for a row that has not expired.
C13_GetFailsSoft ==
    \A s \in Slots :
        LET r == req[s]
        IN  /\ r.got # "raised"
            /\ r.got # "" =>
                 /\ r.seen \in {"error", "threw", "none", "expired"} =>
                        r.got = "null"
                 /\ r.got = "null" => r.cached = Null
                 /\ r.got = "value" => r.seen = "live" /\ r.cached # Null

\* a get whose select threw and a get whose delete of the expired row
\* failed both came back with null
C13_Witness ==
    \E s, u \in Slots :
        /\ req[s].seen = "threw" /\ req[s].got = "null"
        /\ req[u].seen = "expired" /\ req[u].delFault /\ req[u].got = "null"

\* what the call in r computes on a cache miss, from what its upstream
\* answered
FreshResult(r) ==
    IF r.kind = "geocode"
    THEN /\ GoogleConfigured => r.google # Null
         /\ ~GoogleUsable(r) => r.nominatim # Null
         /\ r.result = IF GoogleUsable(r) THEN Some([lat |-> 40, lng |-> -74])
                       ELSE IF NominatimUsable(r)
                            THEN Some([lat |-> 41, lng |-> -75])
                            ELSE Null
    ELSE IF r.kind = "extract"
    THEN /\ r.hf # Null
         /\ r.result =
              Some([location |->
                  IF ~Val(r.hf).ok THEN ExtractionFailed
                  ELSE IF Len(Val(r.hf).data) = 0 THEN Unknown
                  ELSE IF Len(Val(r.hf).data) = 1 THEN <<"L", "A">>
                  ELSE <<"N", "Y", " ", "C">>])
    ELSE IF r.kind = "social"
    THEN /\ r.generated
         /\ ReportIds(Val(r.result)) =
              {id \in 1..Len(MockData) : TagMatch(id, r.arg[2])}
    ELSE /\ r.generated
         /\ [i \in 1..Len(Val(r.result)) |-> Val(r.result)[i].id] =
              <<"fema_1", "redcross_1", "nyc_emergency_1">>

\* the result is one the service caches
Cacheable(r) ==
    /\ r.result # Null
    /\ r.kind = "extract" => Val(r.hf).ok

\* C14: when the cache store fails on get (the select or the delete of an
\* expired row) or on set, geocodeLocation, extractLocation,
\* fetchSocialMediaReports and fetchOfficialUpdates go on as on a cache
\* miss: the upstream is consulted, the freshly computed result is returned
\* to the caller, and after a failed get the set is still attempted.
C14_CacheUnavailableIsMiss ==
    \A s \in Slots :
        LET r == req[s]
        IN  (r.pc = "done" /\ (StoreFailedOnGet(r) \/ r.setFault)) =>
                /\ r.cached = Null
                /\ FreshResult(r)
                /\ Cacheable(r) => r.wrote \/ r.setFault

\* geocodeLocation returned fresh coordinates although the select threw,
\* a row for its key being in the table, and the upsert failed as well
C14_Witness ==
    \E s \in Slots :
        /\ Done(s, "geocode") /\ req[s].seen = "threw" /\ req[s].setFault
        /\ HasRow(req[s].key)
        /\ req[s].result = Some([lat |-> 41, lng |-> -75])

-----------------------------------------------------------------------------
(* Properties of POST /geocode and extractLocation (SpecRoute) *)

Sentinel == Some([location |-> ExtractionFailed])

\* C15: extractLocation never raises, whatever it is called with, and when
\* the call of the extraction model fails it returns
\* { location: 'Location extraction failed' }.
C15_ExtractNeverRaises ==
    \A h \in GeocodeRequests :
        route[h].extracted =>
            /\ route[h].raised # "extractLocation"
            /\ (route[h].hf # Null /\ ~Val(route[h].hf).ok) =>
                   route[h].extraction = Sentinel

\* C16: when the extraction model answers successfully with no entity,
\* extractLocation returns the failure sentinel, the request is answered
\* 422 (extraction failed) and geocodeLocation and its providers are not
\* called.
C16_NoLocationIsSentinel ==
    \A h \in GeocodeRequests :
        (route[h].hf # Null /\ Val(route[h].hf).ok
                            /\ Val(route[h].hf).data = <<>>) =>
            /\ route[h].extraction = Sentinel
            /\ route[h].resolved = Null
            /\ route[h].pc = "done" =>
                   route[h].status = 422 /\ route[h].providers = {}

\* C17: when the request gives a location_name, extractLocation is not
\* called, with or without a description, and the text given is what
\* geocodeLocation is called with.
C17_ExplicitOutranks ==
    \A h \in GeocodeRequests :
        (route[h].location_name.type = "string"
         /\ route[h].location_name.str # <<>>) =>
            /\ ~route[h].extracted
            /\ route[h].resolved = Some(route[h].location_name.str)

\* C18: when extractLocation returns the failure sentinel the request is
\* answered 422 (extraction failed) and geocodeLocation is not called for
\* it: no cache lookup for the sentinel text, no provider call.
C18_FailFast ==
    \A h \in GeocodeRequests :
        route[h].extraction = Sentinel =>
            /\ route[h].pc = "done" /\ route[h].status = 422
            /\ route[h].body.error = "extract"
            /\ route[h].resolved = Null /\ route[h].providers = {}
            /\ \A s \in Slots :
                  ~(req[s].kind = "geocode" /\ req[s].arg = ExtractionFailed)
            /\ ~HasRow(GeocodeKey(ExtractionFailed))

\* the extraction model failed, the sentinel came back, the answer was 422
C18_Witness ==
    \E h \in GeocodeRequests :
        /\ route[h].extraction = Sentinel
        /\ route[h].hf # Null /\ ~Val(route[h].hf).ok
        /\ route[h].status = 422

\* C19: a request that called geocodeLocation reports the text it called
\* it with: 422 (could not geocode) with that text when geocodeLocation
\* returned null, otherwise the result with that text and the coordinates
\* geocodeLocation returned.
C19_ReportsResolvedText ==
    \A h \in GeocodeRequests :
        (route[h].pc = "done" /\ route[h].resolved # Null) =>
            IF route[h].coordinates = Null
            THEN /\ route[h].status = 422
                 /\ route[h].body.error = "geocode"
                 /\ route[h].body.location_name = Str(Val(route[h].resolved))
            ELSE /\ route[h].status = 200
                 /\ route[h].body.extracted_location = Str(Val(route[h].resolved))
                 /\ route[h].body.coordinates = route[h].coordinates

\* one request could not geocode the text it had extracted, another was
\* answered with coordinates
C19_Witness ==
    \E g, h \in GeocodeRequests :
        /\ route[g].status = 422 /\ route[g].body.error = "geocode"
        /\ route[g].extraction # Null
        /\ route[h].status = 200 /\ route[h].coordinates # Null

-----------------------------------------------------------------------------
(* Properties of the feed aggregators (SpecFault) *)

\* v is a sequence of items, each with an id
IsSequence(v) ==
    /\ DOMAIN v = 1..Len(v)
    /\ \A i \in DOMAIN v : "id" \in DOMAIN v[i]

-----------------------------------------------------------------------------
(* Properties of joining and leaving (SpecFan) *)

Published == Len(events') = Len(events) + 1

\* C22: a connection that has sent join_disaster for a disaster, once or
\* more, is in the room of the disaster; handling join_disaster again for
\* the same disaster changes no room and delivers nothing; and an event
\* published to the room after two or more joins is delivered to the
\* connection exactly once.
C22_JoinIdempotent ==
    /\ [](\A c \in Conns, d \in DisasterIds :
            (sockets[c] = "connected" /\ HasJoined(c, d)) =>
                c \in Members(RoomName(d)))
    /\ [][\A c \in Conns, d \in DisasterIds :
            /\ (joined[c].times[d] = 1 /\ joined'[c].times[d] = 2) =>
                  /\ rooms' = rooms
                  /\ inbox' = inbox
            /\ (Published /\ events'[Len(events')].disaster_id = d
                /\ sockets[c] = "connected" /\ joined[c].times[d] = 2) =>
                  Cardinality({i \in 1..Len(inbox'[c]) :
                                  inbox'[c][i] = Len(events')}) = 1]_vars

\* c1 sent join_disaster for d1 twice; it is in the room and has the one
\* event of d1 once
C22_Witness ==
    /\ joined["c1"].times[<<"d", "1">>] = 2
    /\ "c1" \in Members(RoomName(<<"d", "1">>))
    /\ Len(events) = 1 /\ events[1].disaster_id = <<"d", "1">>
    /\ inbox["c1"] = <<1>>

\* C23: a connection that has disconnected is in no room, and a connection
\* can stop watching a disaster without disconnecting: once the client has
\* gone on to another disaster (its last join_disaster is for another one)
\* it is no longer in the room of the former, so that no event published to
\* that room afterwards is delivered to it.
C23_SubscriptionsEnd ==
    \A c \in Conns :
        /\ sockets[c] = "disconnected" =>
              \A room \in DOMAIN rooms : c \notin rooms[room]
        /\ sockets[c] = "connected" =>
              \A d \in DisasterIds :
                  c \in Members(RoomName(d)) => joined[c].selected = Some(d)

-----------------------------------------------------------------------------
(* Properties of concurrent cache writes (SpecRace) *)

TheQuery == <<"geocode", FaultLocation>>
TheKey == GeocodeKey(FaultLocation)

\* C24: whatever the interleaving of the set calls on one key, the cache
\* holds at most one row for the key (the table is keyed by it), and its
\* value and its expires_at are those of one set call, the last applied; the
\* row a select of get reads, and the value get returns, are those of one
\* set call, whole, also when the get races with an upsert or with the
\* delete of the expired row.
C24_LastWriterWins ==
    /\ DOMAIN cache \subseteq {TheKey}
    /\ HasRow(TheKey) =>
          /\ TheQuery \in DOMAIN lastSet
          /\ cache[TheKey] =
                [value |-> lastSet[TheQuery].value,
                 expires_at |-> SetHours(lastSet[TheQuery].at, DefaultTtl)]
          /\ cache[TheKey] \in Written(TheQuery)
    /\ \A s \in Slots :
          LET r == req[s]
          IN  /\ r.data # Null => Val(r.data) \in Written(TheQuery)
              /\ r.got = "value" =>
                    \E w \in Written(TheQuery) : w.value = r.cached

\* after a first call had written the row and the row had expired, two
\* calls overlapped: both read the expired row and went through its delete,
\* both wrote, different coordinates at different times, and the row is that
\* of the later upsert
C24_Witness ==
    /\ Cardinality(Written(TheQuery)) = 3
    /\ \A s \in Slots : /\ Done(s, "geocode") /\ ~req[s].alone
                        /\ req[s].seen = "expired" /\ req[s].wrote
    /\ \E s, u \in Slots : req[s].result # req[u].result
    /\ HasRow(TheKey)

-----------------------------------------------------------------------------
(* Properties of the provider calls (SpecGeoLive) *)

\* C25: every call to a geocoding provider is bounded in time, so a
\* geocodeLocation call that waits for Google or for Nominatim returns in
\* the end, also when the provider never answers.
C25_BoundedProviderCalls ==
    \A s \in Slots :
        (req[s].pc \in {"google", "nominatim"}) ~> (req[s].pc = "done")

-----------------------------------------------------------------------------
(* Properties of the order and the moment of delivery (SpecFan) *)

\* the places of event e in the inbox of connection c
Places(c, e) == {i \in 1..Len(inbox[c]) : inbox[c][i] = e}

\* C26: of two events published one after the other to the room of one
\* disaster, a connection that was subscribed to the disaster at both
\* publish times has both, the earlier one before the later one.
C26_PublishOrder ==
    \A c \in Conns : \A e1, e2 \in 1..Len(events) :
        (/\ e1 < e2
         /\ events[e1].disaster_id = events[e2].disaster_id
         /\ c \in events[e1].subscribers \cap events[e2].subscribers) =>
            /\ Places(c, e1) # {} /\ Places(c, e2) # {}
            /\ \A i \in Places(c, e1), j \in Places(c, e2) : i < j

\* c1 was in the room of d1 at both publishes and has the two events in
\* publish order; c2 joined in between and has only the second
C26_Witness ==
    /\ Len(events) = 2
    /\ events[1].disaster_id = <<"d", "1">>
    /\ events[2].disaster_id = <<"d", "1">>
    /\ events[1].subscribers = {"c1"}
    /\ events[2].subscribers = {"c1", "c2"}
    /\ inbox["c1"] = <<1, 2>>
    /\ inbox["c2"] = <<2>>

\* C27: a publish delivers the event, once, to the sockets that are in the
\* room at that moment and to no other; after the publish the deliveries of
\* the event never change: a connection whose join_disaster is handled later
\* is never sent it, and no connection is sent it again.
C27_PublishSnapshot ==
    [][/\ \A c \in Conns : \A e \in 1..Len(events) :
             Places(c, e)' = Places(c, e)
       /\ Published =>
             \A c \in Conns :
                 Cardinality({i \in 1..Len(inbox'[c]) :
                                 inbox'[c][i] = Len(events')}) =
                     IF c \in Members(RoomName(events'[Len(events')].disaster_id))
                     THEN 1 ELSE 0]_vars

\* c1 was in the room of d1 when its event was published and has it; c2
\* joined d1 afterwards, is in the room now and has nothing
C27_Witness ==
    /\ Len(events) = 1 /\ events[1].disaster_id = <<"d", "1">>
    /\ events[1].subscribers = {"c1"}
    /\ {"c1", "c2"} \subseteq Members(RoomName(<<"d", "1">>))
    /\ inbox["c1"] = <<1>> /\ inbox["c2"] = <<>>

-----------------------------------------------------------------------------
(* Properties of the expiry instant (SpecSocial) *)

\* C28: set(key, value, ttlHours) stores expires_at = the instant set was
\* called + the ttl, for the ttl of one hour and for the social media ttl
\* of half an hour: so it is in the upsert that is on its way, and in the
\* row once it is written.
C28_ExpiresAtIsWritePlusTtl ==
    /\ \A s \in Slots :
          req[s].pc = "upsert" =>
              req[s].expiresAt = req[s].setAt + TtlOf(req[s].kind)
    /\ \A q \in DOMAIN lastSet :
          \A s \in Slots :
              (<<req[s].kind, req[s].arg>> = q /\ HasRow(req[s].key)) =>
                  cache[req[s].key].expires_at = lastSet[q].at + TtlOf(q[1])

-----------------------------------------------------------------------------
(* Properties of the caching of extraction results (SpecFault) *)

TheText == <<"extract", FaultDescription>>

\* extractLocation has returned after a cache miss, the store having
\* answered its select
ExtractedOnMiss(r) ==
    r.pc = "done" /\ r.kind = "extract" /\ r.got = "null"

\* C29, as stated: after extractLocation(text) returns on a cache miss, a
\* row whose value is the returned result has been written under the key of
\* text, whether the result is an extracted phrase or the failure sentinel
\* (the store accepting the write).
C29_CachedWhateverTheyAre ==
    \A s \in Slots :
        (ExtractedOnMiss(req[s]) /\ ~req[s].setFault) =>
            /\ req[s].wrote
            /\ \E w \in Written(TheText) : w.value = req[s].result

\* C29, amended: a result made from the answer of the model (a phrase, or
\* 'Unknown') is written under the key of text with the ttl of one hour,
\* unless the store fails the write; the failure sentinel is returned
\* without a write, and no row ever holds it.
C29_CachedUnlessFailed ==
    /\ \A s \in Slots :
          LET r == req[s]
          IN  /\ (r.kind = "extract" /\ r.pc = "upsert") =>
                    /\ Val(r.hf).ok
                    /\ r.result = Some(ResultData(Val(r.hf).data))
                    /\ r.expiresAt = r.setAt + Hour
              /\ (ExtractedOnMiss(r) /\ Val(r.hf).ok /\ ~r.setFault) =>
                    /\ r.wrote
                    /\ \E w \in Written(TheText) : w.value = r.result
              /\ (ExtractedOnMiss(r) /\ ~Val(r.hf).ok) =>
                    /\ r.result = Some([location |-> ExtractionFailed])
                    /\ ~r.wrote /\ ~r.setFault
    /\ \A w \in Written(TheText) :
          w.value # Some([location |-> ExtractionFailed])
    /\ HasRow(ExtractKey(FaultDescription)) =>
          cache[ExtractKey(FaultDescription)] \in Written(TheText)

\* one call returned the failure sentinel and wrote nothing, another
\* returned 'Unknown' and wrote it
C29_Witness ==
    \E s, u \in Slots :
        /\ ExtractedOnMiss(req[s]) /\ ~Val(req[s].hf).ok /\ ~req[s].wrote
        /\ ExtractedOnMiss(req[u]) /\ req[u].wrote
        /\ req[u].result = Some([location |-> Unknown])
        /\ HasRow(ExtractKey(FaultDescription))
        /\ cache[ExtractKey(FaultDescription)].value = req[u].result

-----------------------------------------------------------------------------
(* Properties of the fallback between the providers (SpecGeo) *)

\* geocodeLocation is past a cache miss
Missed(r) == r.kind = "geocode" /\ r.got = "null"

\* C30: with no Google key, or with the placeholder for a key, Google is
\* never called; when Google is not configured, fails or answers with no
\* result, geocodeLocation goes on to Nominatim; no failure of a provider
\* reaches the caller: the call returns coordinates when a provider gave a
\* result and null (absent) when none did.
C30_UnusableOnlyFallsBack ==
    \A s \in Slots :
        LET r == req[s]
        IN  /\ googleApiKey \in {"", Placeholder} =>
                  r.google = Null /\ r.pc # "google"
            /\ (Missed(r) /\ ~GoogleUsable(r)) =>
                  \/ r.pc = "google" /\ r.google = Null
                  \/ r.pc = "nominatim" /\ r.nominatim = Null
                  \/ r.nominatim # Null /\ Returned(r)
            /\ (Missed(r) /\ r.pc = "done") =>
                  /\ r.result = Null <=>
                        (~GoogleUsable(r) /\ ~NominatimUsable(r))
                  /\ r.result # Null =>
                        Val(r.result) \in {[lat |-> 40, lng |-> -74],
                                           [lat |-> 41, lng |-> -75]}

\* the key is left at the placeholder: one call got its coordinates from
\* Nominatim, another got null after Nominatim failed with an error, and
\* Google was called by neither
C30_Witness ==
    /\ googleApiKey = Placeholder
    /\ \E s, u \in Slots :
          /\ Missed(req[s]) /\ req[s].pc = "done" /\ req[s].google = Null
          /\ req[s].result = Some([lat |-> 41, lng |-> -75])
          /\ Missed(req[u]) /\ req[u].pc = "done" /\ req[u].google = Null
          /\ ~Val(req[u].nominatim).ok /\ req[u].result = Null

-----------------------------------------------------------------------------
(* Properties of the read-only routes (SpecReads) *)

\* C31: a read-only request (GET resources, GET social-media, GET
\* official-updates of a disaster) delivers no event to any connection.
C31_ReadsPublishNothing ==
    /\ \A i \in 1..Len(http) : http[i].delivered = {}
    /\ \A c \in Conns : inbox[c] = <<>>

-----------------------------------------------------------------------------
(* Properties of the rows of the cache (SpecRows) *)

\* the row of key k after the step is not the row before it
RowChanges(k) ==
    \/ (k \in DOMAIN cache) # (k \in DOMAIN cache')
    \/ k \in DOMAIN cache /\ k \in DOMAIN cache' /\ cache'[k] # cache[k]

\* the step is the delete that the get of call s sends for its expired row
DeletesExpired(s) ==
    /\ req[s].pc = "delete" /\ req'[s].pc # "delete"
    /\ req[s].seen = "expired"

\* the step is the upsert of the set of call s
Upserts(s) == req[s].pc = "upsert" /\ req'[s].pc = "done"

\* C32: a row goes away only in the delete that a get sends for the expired
\* row of its own key, and comes or changes only in the upsert of a set on
\* its own key; these steps leave the rows of every other key as they are,
\* every other step (a get that finds no row or a live row among them)
\* leaves the whole table as it is, however many rows it holds.
C32_OnlyOwnKeyChanges ==
    [][\A k \in (DOMAIN cache) \cup (DOMAIN cache') :
          RowChanges(k) =>
             IF k \notin DOMAIN cache'
             THEN \E s \in Slots : req[s].key = k /\ DeletesExpired(s)
             ELSE \E s \in Slots : req[s].key = k /\ Upserts(s)
                                   /\ cache'[k].value = req[s].result]_vars

\* the get of one call has deleted the expired row of its key; the row of
\* the other key, as old, is still there
C32_Witness ==
    \E s \in Slots : \E k \in DOMAIN cache :
        /\ req[s].seen = "expired" /\ req[s].got = "null"
        /\ k # req[s].key /\ ~HasRow(req[s].key)
        /\ Expired(now, cache[k])

\* C33: the delete that get sends after it has read an expired row removes
\* only an expired row: when a set has written a fresh row for the key in
\* the meantime, that row is still in the table after the delete.
C33_CleanupSparesFreshRow ==
    [][\A s \in Slots :
          (/\ DeletesExpired(s)
           /\ HasRow(req[s].key)
           /\ now < cache[req[s].key].expires_at) =>
              /\ req[s].key \in DOMAIN cache'
              /\ cache'[req[s].key] = cache[req[s].key]]_vars

-----------------------------------------------------------------------------
(* Properties of concurrent PUT and DELETE requests (SpecStore) *)

\* the PUT requests on disaster id that were answered 200
Updated(id) ==
    {h \in Requests : http[h].op = "update" /\ http[h].id = id
                      /\ http[h].pc = "done" /\ http[h].status = 200}

\* the 'update' entries of an audit trail
UpdateEntries(trail) ==
    {i \in 1..Len(trail) : trail[i].action = "update"}

\* C34: whatever the interleaving of the PUT requests on one disaster, its
\* audit_trail holds one 'update' entry for each PUT that was answered with
\* success: none is lost, none is there twice.
C34_AuditTrailComplete ==
    \A id \in DOMAIN disasters :
        Cardinality(UpdateEntries(disasters[id].audit_trail)) =
            Cardinality(Updated(id))

\* C36: a PUT answered with success has emitted one disaster_updated event
\* of action 'update' that carries the updated record, the disaster being in
\* the table at the write; a PUT whose disaster a concurrent DELETE removed
\* after the ownership check does not answer with success.
C36_UpdateOfExistingOnly ==
    \A h \in Requests :
        (http[h].op = "update" /\ http[h].pc = "done"
         /\ http[h].status = 200) =>
            /\ Len(http[h].emitted) = 1
            /\ events[http[h].emitted[1]].action = "update"
            /\ events[http[h].emitted[1]].disaster = "record"

-----------------------------------------------------------------------------
(* Properties of the ownership check and of authenticateUser (SpecCrud) *)

\* user is the owner of the row or an admin
OwnerOrAdmin(user, row) == user.id = row.owner_id \/ user.role = "admin"

\* request h is a PUT or a DELETE whose write on disaster id returns in this
\* step
WriteReturns(h, id) ==
    /\ http[h].id = id
    /\ http[h].pc \in {"update", "delete"}
    /\ http'[h].pc = "done"

\* C35: a PUT or a DELETE gets past the ownership check only for the owner of
\* the disaster or an admin, and a stored disaster changes or goes only in
\* the write of such a request; the request of any other user is answered
\* 403 in a step that leaves the table alone and emits nothing.
C35_OwnerOrAdminOnly ==
    /\ [](\A h \in Requests :
            /\ http[h].pc \in {"update", "delete"} =>
                   OwnerOrAdmin(Val(http[h].user), Val(http[h].existing))
            /\ http[h].status = 403 => http[h].emitted = <<>>)
    /\ [][ /\ \A id \in DOMAIN disasters :
                (id \notin DOMAIN disasters' \/ disasters'[id] # disasters[id])
                => \E h \in Requests :
                      /\ WriteReturns(h, id)
                      /\ OwnerOrAdmin(Val(http[h].user), disasters[id])
           /\ \A h \in Requests :
                (http[h].pc = "select" /\ http[h].id \in DOMAIN disasters
                 /\ http'[h].pc # "select"
                 /\ ~OwnerOrAdmin(Val(http[h].user), disasters[http[h].id]))
                => /\ http'[h].status \in {403, 404}
                   /\ disasters' = disasters
                   /\ events' = events ]_vars

\* a contributor was refused the disaster of another user, which is still
\* there, and an owner's write went through
C35_Witness ==
    /\ \E h \in Requests :
          /\ http[h].status = 403
          /\ http[h].header = "citizen1"
          /\ http[h].id \in DOMAIN disasters
          /\ disasters[http[h].id].owner_id = "netrunnerX"

\* the ids of the known users
KnownIds == DOMAIN MockUsers

\* C38: a request runs its handler as user U only if its x-user-id header is
\* the id of the known user U; a request with an unknown id or with no header
\* is answered 401 and its handler does not run.
C38_IdentityFromHeaderOnly ==
    \A h \in Requests :
        /\ http[h].user # Null => http[h].header = Val(http[h].user).id
        /\ http[h].header \notin KnownIds =>
               http[h].pc = "done" /\ http[h].status = 401

-----------------------------------------------------------------------------
(* Properties of the extracted phrase (SpecFault) *)

\* the words of the entities of the groups extractLocation keeps
TokenWords(entities) ==
    LET kept == SelectSeq(entities, LAMBDA ent :
                    ent.entity_group \in {"LOC", "ORG", "PER", "MISC"})
    IN  [i \in 1..Len(kept) |-> kept[i].word]

IsControl(word) ==
    word \in { <<"[", "C", "L", "S", "]">>, <<"[", "S", "E", "P", "]">> }

IsContinuation(word) ==
    Len(word) >= 2 /\ word[1] = "#" /\ word[2] = "#"

\* the tokens of words, in order, without the control tokens, each
\* continuation token appended to the token before it
RECURSIVE MergedTokens(_, _)
MergedTokens(words, done) ==
    IF words = <<>> THEN done
    ELSE LET word == Head(words)
         IN  IF IsControl(word) THEN MergedTokens(Tail(words), done)
             ELSE IF IsContinuation(word) /\ done # <<>>
                  THEN MergedTokens(Tail(words),
                         [done EXCEPT ![Len(done)] =
                             @ \o SubSeq(word, 3, Len(word))])
                  ELSE MergedTokens(Tail(words), Append(done, word))

\* C39: the phrase extractLocation returns on a cache miss, the model having
\* answered with tokens, is made of the tokens in the order they came, joined
\* by one space, without the control tokens [CLS] and [SEP], each '##'
\* continuation token being merged onto the token before it with no space
\* between them.
C39_ContinuationsMerged ==
    \A s \in Slots :
        LET r == req[s]
        IN  (ExtractedOnMiss(r) /\ Val(r.hf).ok
             /\ MergedTokens(TokenWords(Val(r.hf).data), <<>>) # <<>>) =>
                Val(r.result).location =
                    Join(MergedTokens(TokenWords(Val(r.hf).data), <<>>),
                         <<" ">>)

-----------------------------------------------------------------------------
(* Properties of POST /disasters/:id/verify-image (SpecVerify) *)

\* C37: the verification_status of every report the route sends to the
\* reports table is one the CHECK of the table allows, so every request
\* that got as far as the insert, whatever the outcome of the verification
\* (the image analysed, the verification failed, no image given), has its
\* report in the table, unless the store itself fails the insert.
C37_EveryOutcomeStored ==
    \A h \in Requests :
        /\ http[h].pc = "insert" =>
               Val(http[h].verification).status \in AllowedStatuses
        /\ (http[h].pc = "done" /\ http[h].verification # Null
            /\ ~http[h].storeError) =>
               /\ http[h].report # Null
               /\ \E i \in 1..Len(reportsTable) :
                     reportsTable[i] = Val(http[h].report)

=============================================================================
